---- MODULE Spec2Model ----
(***************************************************************************)
(* cgmon: the flow tracker (package tracker), the sample data model        *)
(* (package sampler) and the flag/count part of the analyzer (package      *)
(* analyzer), as driven by App.processSerial: Track, then Analyze.         *)
(*                                                                         *)
(* Tracker.Track is modelled at the granularity of its code blocks: the    *)
(* entry of Track (TrackBegin), one iteration of the range loop of         *)
(* Tracker.update per sample of the batch (Update), and Tracker.cleanup    *)
(* together with the rest of Track (Cleanup).  pc is the position of the   *)
(* single goroutine that runs them; the batch is consumed sample by        *)
(* sample, so a batch is any sequence of at most maxBatch samples.         *)
(*                                                                         *)
(* The App (package main) is modelled with one position per goroutine:     *)
(* the master loop of Run (mpc), the convert, track, analyze and write     *)
(* stages (stage) and the caller of Stop (spc), with the channels between  *)
(* them, and with the session and the recycling queues of the netlink      *)
(* Sampler.  There the tracker and the analyzer are the operators Track    *)
(* and AnalyzeFlows, and the buffers of the Results and of the sample     *)
(* slices are followed by identity (bufs).  nl_sample (nl_diag.c) is       *)
(* modelled message by message (nlpc), with the monotonic clock it reads   *)
(* after each receive.                                                     *)
(*                                                                         *)
(* The port filter (nl_filter.c) is modelled by the program nl_port_filter *)
(* emits and by the kernel's run of it on a socket, op by op; Writer.Write *)
(* by the records of a batch it encodes; flow.analyze by the correlations  *)
(* and the send throughput it computes, with float64 values as fractions   *)
(* and uint64 values wrapping at 2^64.                                     *)
(*                                                                         *)
(* Each specification moves one of the parts and leaves the others as      *)
(* constructed.                                                            *)
(***************************************************************************)
EXTENDS Integers, Sequences, FiniteSets, TLC

VARIABLES
    flows,        \* Tracker.flows: map[sampler.ID]*Flow, a function on the IDs in the table
    firstTrack,   \* Tracker.firstTrack
    MaxFlows,     \* Tracker.Config.MaxFlows
    MinSamples,   \* Tracker.Config.MinSamples
    pc,           \* position of the processing goroutine: "idle", "update", "analyze"
    now,          \* t0 of the current Track call (wall clock, one unit per call)
    tstamp,       \* monotonic receive timestamp of the datagram the samples come from
    n,            \* number of samples of the current batch already ranged over
    ended,        \* the flows returned by the last Track call (order unspecified: a set)
    deleted,      \* the flows removed from the table by the last cleanup (ended or dropped)
    stats,        \* the FlowStats returned by the last Analyze call
    seen,         \* history: per ID, the samples received for the flow last inserted for it
    batchIDs,     \* history: the IDs of the samples of the current batch ranged over so far
    emitted,      \* history: <<ID, StartTime>> of every flow Track has returned
    marked,       \* history: <<ID, StartTime>> of every flow that was marked filtered
    Serial,       \* App.Config.Serial
    MaxErrors,    \* App.Config.MaxErrors
    ErrorDelay,   \* App.Config.ErrorDelay, a 64-bit time.Duration: the set of its one bits
    Duration,     \* App.Config.Duration (0: unlimited)
    errs,         \* App.errs
    mpc,          \* position of the goroutine that runs App.Run
    r,            \* Run's local r: the Result in hand, <<>> when none
    err,          \* Run's result err: "nil", "sample", "aborted" or "writer"
    rc,           \* App.rc: chan sampler.Result
    sc,           \* App.sc: chan []sampler.Sample
    fc,           \* App.fc: chan []*tracker.Flow
    fsc,          \* App.fsc: chan []*analyzer.FlowStats
    errc,         \* App.errc: chan error
    closed,       \* the channels of App that are closed and the writer once Writer.Close has been called, by field name
    stage,        \* per stage goroutine: its position and the item it holds
    spc,          \* position of the goroutine that calls App.Stop
    stopErr,      \* the error App.Stop returned: "nil" or "timeout"
    session,      \* netlink.Sampler.session: 0 for nil, else the number of the nl_open that made it
    resultsCh,    \* netlink.Sampler.resultsCh: the number of recycled Results it holds
    samplesCh,    \* netlink.Sampler.samplesCh: the number of recycled sample slices it holds
    calls,        \* history: the number of Sample calls made
    opens,        \* history: the number of sessions nl_open has opened
    fails,        \* history: the number of Sample calls that failed since the last success
    sampled,      \* history: the Results Sample returned, in order
    tracked,      \* history: the sample batches passed to Tracker.Track, in order
    written,      \* history: the FlowStats batches passed to Writer.Write, in order
    werr,         \* history: Writer.Write has returned an error
    waits,        \* history: the timers the master waited out since the last Sample call
    dropped,      \* history: a full recycling queue has dropped a buffer
    bufs,         \* the buffers: those in Sampler.resultsCh and in Sampler.samplesCh, the Result buffers of the Results and the slices of the batches in the pipeline, oldest first, and (history) whether a stage used a buffer that was in a recycling queue
    nlpc,         \* position in nl_sample: "idle", "recv", "walk", "ret"
    h,            \* nl_sample's h: the messages of the datagram in read_buf not yet walked
    nsamples,     \* nl_sample's nsamples
    msgs,         \* nl_sample's msgs
    msgslen,      \* nl_sample's msgslen, one unit per message
    nlret,        \* the value nl_sample returned
    errno,        \* errno when nl_sample returned
    nlstats,      \* nl_sample's *stats, the nl_sample_stats of the Result
    records,      \* history: messages with a tcp_info attribute received before the first DONE or ERROR
    parsable,     \* history: messages with attributes received before the first DONE or ERROR
    parsed,       \* history: the number of calls of parse
    clock,        \* the last reading of CLOCK_MONOTONIC, in nanoseconds
    ts,           \* nl_sample's ts
    samples,      \* nl_sample's *samples up to nsamples: the datagram and the tstamp_ns of each nl_sample
    results,      \* history: the tstamp_ns of the samples of each Result the calls of nl_sample produced, in order
    un,           \* history: what uname returned to nl_init
    eq_op_support, \* nl_diag.c's eq_op_support
    sports,       \* Sampler.SrcPorts: lo, hi, lo, hi, ...
    dports,       \* Sampler.DstPorts
    filter,       \* nl_session.filter: the ops of *filter, <<>> for NULL
    flen,         \* what nl_port_filter returned (nl_session.filter_len)
    fpc,          \* position in nl_init, nl_port_filter, pfops and the kernel's run
    op,           \* nl_port_filter's op after the calls of pfops: the ops before it in *filter
    pkt,          \* the socket the kernel runs the filter on: its sport and dport
    bclen,        \* the kernel's len: the bytes of the filter after the current op
    visited,      \* history: the ops the kernel's run has executed, by index
    WriterPartial, \* Writer.Config.Partial
    ss,           \* the batch passed to the last call of Writer.Write
    encoded,      \* the records of ss that Encode has written, in order
    wret,         \* the error the last call of Writer.Write returned: "nil" or "encode"
    AdjustedCC1,  \* analyzer.Config.AdjustedCC1
    AdjustedCC2,  \* analyzer.Config.AdjustedCC2
    fin,          \* the flow analysed: len(f.Data), the RTT and cwnd of f.Data, the results of stat.Correlation on its series, BytesAcked, its wall duration in seconds
    fstat,        \* the FlowStats flow.analyze returned, <<>> before the call
    nlo           \* nl_open and nl_close: the descriptors the process has open (fds), the nl_session blocks allocated and not freed (blocks), *nls (nls: <<>> for NULL, else the session), what the last nl_open returned (ret), and history: the calls of nl_open (calls), the descriptors open at the entry of the last one (before), the descriptor its socket() returned, -1 if none (sock), the step it failed at (failed)

trackerVars == <<flows, firstTrack, MaxFlows, MinSamples, pc, now, tstamp, n,
                 ended, deleted, stats, seen, batchIDs, emitted, marked>>

appVars == <<Serial, MaxErrors, ErrorDelay, Duration, errs, mpc, r, err,
             rc, sc, fc, fsc, errc, closed, stage, spc, stopErr,
             session, resultsCh, samplesCh,
             calls, opens, fails, sampled, tracked, written, werr, waits, dropped,
             bufs>>

nlVars == <<nlpc, h, nsamples, msgs, msgslen, nlret, errno, nlstats,
            records, parsable, parsed, clock, ts, samples, results>>

filterVars == <<un, eq_op_support, sports, dports, filter, flen, fpc, op,
                pkt, bclen, visited>>

writerVars == <<WriterPartial, ss, encoded, wret>>

statVars == <<AdjustedCC1, AdjustedCC2, fin, fstat>>

openVars == <<nlo>>

vars == <<trackerVars, appVars, nlVars, filterVars, writerVars, statVars, openVars>>

\* what a step of the tracker, of the App, of nl_sample, of the port filter,
\* of the writer, of flow.analyze, of nl_open and nl_close leaves alone
notTracker == <<appVars, nlVars, filterVars, writerVars, statVars, openVars>>
notApp == <<trackerVars, nlVars, filterVars, writerVars, statVars, openVars>>
notNl == <<trackerVars, appVars, filterVars, writerVars, statVars, openVars>>
notFilter == <<trackerVars, appVars, nlVars, writerVars, statVars, openVars>>
notWriter == <<trackerVars, appVars, nlVars, filterVars, statVars, openVars>>
notStat == <<trackerVars, appVars, nlVars, filterVars, writerVars, openVars>>
notOpen == <<trackerVars, appVars, nlVars, filterVars, writerVars, statVars>>

----------------------------------------------------------------------------
(* Bounds *)

MaxTick == 3        \* Track calls in a run of Spec
MaxBatch == 3       \* samples per batch in Spec
DataMaxTick == 3    \* Track calls in a run of SpecData
OpenMaxCalls == 5   \* calls of nl_open in a run of SpecOpen
ScenMaxTick == 7    \* Track calls in a run of SpecScen
RcCap == 1          \* capacity of App.rc (128 in NewApp)
ScCap == 1          \* capacity of App.sc (256 in NewApp)
FcCap == 1          \* capacity of App.fc (256 in NewApp)
FscCap == 1         \* capacity of App.fsc (1024 in NewApp)
RecycleCap == 1     \* capacity of Sampler.resultsCh and Sampler.samplesCh (32 in NewSampler)
PipeMaxCalls == 9   \* Sample calls in a run of SpecPipe
FairMaxCalls == 3   \* Sample calls in a run of SpecFair
ErrMaxCalls == 6    \* Sample calls in a run of SpecErr
NlMaxLen == 2       \* messages in a datagram of SpecNl
NlMaxDgrams == 2    \* datagrams of a reply of SpecNl
NlMaxClock == 3     \* largest reading of the monotonic clock, in nanoseconds
NlMaxResults == 2   \* Results produced in a run of SpecClock
MaxRanges == 2      \* port ranges per direction in SpecFilter
LongSingles == 3    \* single destination ports in SpecLong
LongRanges == 3275  \* destination port ranges after them in SpecLong
WriteMaxLen == 3    \* records in a batch of SpecWrite
CorrMaxDen == 3     \* largest denominator of a correlation in SpecStat

----------------------------------------------------------------------------
(* linux.TCPI_OPT_* *)

TCPI_OPT_TIMESTAMPS == 1
TCPI_OPT_SACK == 2
TCPI_OPT_WSCALE == 4
TCPI_OPT_ECN == 8
TCPI_OPT_ECN_SEEN == 16

\* x & opt != 0 for a single-bit mask opt (uint8 arithmetic)
HasBit(x, opt) == (x \div opt) % 2 = 1

----------------------------------------------------------------------------
(* sampler.Data, sampler.Sample *)

MkData(opts, rtt, minrtt, cwnd, pacing, retrans, acked) ==
    [TstampNs |-> 0, Options |-> opts, RTTus |-> rtt, MinRTTus |-> minrtt,
     SndCwndBytes |-> cwnd, PacingRateBps |-> pacing,
     TotalRetransmits |-> retrans, BytesAcked |-> acked]

\* variant: the options are compared as well
EquivalentToWithOptions(d, d1) ==
    /\ d.Options = d1.Options
    /\ d.RTTus = d1.RTTus
    /\ d.BytesAcked = d1.BytesAcked
    /\ d.PacingRateBps = d1.PacingRateBps
    /\ d.TotalRetransmits = d1.TotalRetransmits
    /\ d.SndCwndBytes = d1.SndCwndBytes
    /\ d.MinRTTus = d1.MinRTTus

\* Data.EquivalentTo
EquivalentTo(d, d1) ==
    /\ d.RTTus = d1.RTTus
    /\ d.BytesAcked = d1.BytesAcked
    /\ d.PacingRateBps = d1.PacingRateBps
    /\ d.TotalRetransmits = d1.TotalRetransmits
    /\ d.SndCwndBytes = d1.SndCwndBytes
    /\ d.MinRTTus = d1.MinRTTus

----------------------------------------------------------------------------
(* Input domains: the batches the sampler hands to the tracker.  A dump     *)
(* lists an established socket once, so the IDs of one batch are distinct, *)
(* and the samples of a batch carry the receive timestamp of its datagram. *)

IDs == {"a", "b", "c"}
OneID == {"a"}

\* two data values that differ in what EquivalentTo compares
TinyData == { MkData(0, 10, 10, 14480, 0, 0, 0),
              MkData(0, 30, 10, 28960, 0, 0, 0) }

\* a base value, one variant per compared field, and variants that differ
\* from the base in the options alone
RichData == { MkData(0, 10, 10, 14480, 0, 0, 0),
              MkData(0, 30, 10, 14480, 0, 0, 0),
              MkData(0, 10,  5, 14480, 0, 0, 0),
              MkData(0, 10, 10, 28960, 0, 0, 0),
              MkData(0, 10, 10, 14480, 1, 0, 0),
              MkData(0, 10, 10, 14480, 0, 1, 0),
              MkData(0, 10, 10, 14480, 0, 0, 1),
              MkData(TCPI_OPT_ECN_SEEN, 10, 10, 14480, 0, 0, 0),
              MkData(TCPI_OPT_TIMESTAMPS + TCPI_OPT_SACK + TCPI_OPT_WSCALE + TCPI_OPT_ECN,
                     10, 10, 14480, 0, 0, 0) }

\* the values of scenario A (RTT 10,10,30; cwnd 14480,14480,28960), the
\* second sample with and without progress in bytes acked
ScenData == { MkData(0, 10, 10, 14480, 0, 0, 0),
              MkData(0, 10, 10, 14480, 0, 0, 1448),
              MkData(0, 30, 10, 28960, 0, 0, 2896) }

Samples(ids, data) ==
    { [ID |-> id, Data |-> [d EXCEPT !.TstampNs = tstamp]] : id \in ids, d \in data }

----------------------------------------------------------------------------
(* Tracker *)

\* NewTracker
InitWith(maxFlows, minSamples) ==
    /\ flows = <<>>
    /\ firstTrack = TRUE
    /\ MaxFlows \in maxFlows
    /\ MinSamples \in minSamples
    /\ pc = "idle"
    /\ now = 0
    /\ tstamp = 0
    /\ n = 0
    /\ ended = {}
    /\ deleted = {}
    /\ stats = {}
    /\ seen = <<>>
    /\ batchIDs = {}
    /\ emitted = {}
    /\ marked = {}

\* Tracker.Track, entry: t0 := time.Now(); the batch is a fresh Result, so its
\* receive timestamp is later than that of every earlier batch
TrackBegin(maxTick) ==
    /\ pc = "idle"
    /\ now < maxTick
    /\ pc' = "update"
    /\ now' = now + 1
    /\ tstamp' = tstamp + 1
    /\ n' = 0
    /\ ended' = {}
    /\ deleted' = {}
    /\ stats' = {}
    /\ batchIDs' = {}
    /\ UNCHANGED <<flows, firstTrack, MaxFlows, MinSamples, seen, emitted, marked>>

\* variant: the new flow is not counted
filteredOffByOne(size) == MaxFlows > 0 /\ size > MaxFlows

\* variant: the flows that are not filtered are counted, not the table
filteredCountsActive(size) ==
    MaxFlows > 0
        /\ Cardinality({ id \in DOMAIN flows : ~flows[id].Filtered }) + 1 > MaxFlows

\* update: filtered := t.MaxFlows > 0 && len(t.flows)+1 > t.MaxFlows
filtered(size) == MaxFlows > 0 /\ size + 1 > MaxFlows

\* update, new flow: &Flow{s.ID, data, now, time.Time{}, filtered, true,
\* t.firstTrack, true, 0, s.Data.TstampNs}
NewFlow(s, filt) ==
    [ID |-> s.ID,
     Data |-> IF filt THEN <<>> ELSE <<s.Data>>,
     StartTime |-> now,
     EndTime |-> 0,
     Filtered |-> filt,
     Sampled |-> TRUE,
     PreExisting |-> firstTrack,
     Partial |-> TRUE,
     SamplesDeduped |-> 0,
     EndTstampNs |-> s.Data.TstampNs]

\* variant: no de-duplication
UpdateFlowAlwaysAppend(f, d) ==
    IF f.Filtered
    THEN [f EXCEPT !.Sampled = TRUE]
    ELSE [f EXCEPT !.Sampled = TRUE, !.EndTstampNs = d.TstampNs,
                   !.Data = Append(@, d)]

\* variant: EndTstampNs assigned after the de-duplication test
UpdateFlowEndOnAppend(f, d) ==
    IF f.Filtered
    THEN [f EXCEPT !.Sampled = TRUE]
    ELSE IF EquivalentTo(f.Data[Len(f.Data)], d)
         THEN [f EXCEPT !.Sampled = TRUE, !.SamplesDeduped = @ + 1]
         ELSE [f EXCEPT !.Sampled = TRUE, !.EndTstampNs = d.TstampNs,
                        !.Data = Append(@, d)]

\* variant: a de-duplicated sample is not counted
UpdateFlowDedupUncounted(f, d) ==
    IF f.Filtered
    THEN [f EXCEPT !.Sampled = TRUE]
    ELSE IF EquivalentTo(f.Data[Len(f.Data)], d)
         THEN [f EXCEPT !.Sampled = TRUE, !.EndTstampNs = d.TstampNs]
         ELSE [f EXCEPT !.Sampled = TRUE, !.EndTstampNs = d.TstampNs,
                        !.Data = Append(@, d)]

\* update, existing flow
UpdateFlow(f, d) ==
    IF f.Filtered
    THEN [f EXCEPT !.Sampled = TRUE]
    ELSE IF EquivalentTo(f.Data[Len(f.Data)], d)
         THEN [f EXCEPT !.Sampled = TRUE, !.EndTstampNs = d.TstampNs,
                        !.SamplesDeduped = @ + 1]
         ELSE [f EXCEPT !.Sampled = TRUE, !.EndTstampNs = d.TstampNs,
                        !.Data = Append(@, d)]

\* Tracker.update: one iteration of the loop over the batch
Update(s, maxBatch) ==
    /\ pc = "update"
    /\ n < maxBatch
    /\ n' = n + 1
    /\ batchIDs' = batchIDs \cup {s.ID}
    /\ IF s.ID \notin DOMAIN flows
       THEN /\ flows' = [id \in DOMAIN flows \cup {s.ID} |->
                            IF id = s.ID
                            THEN NewFlow(s, filtered(Cardinality(DOMAIN flows)))
                            ELSE flows[id]]
            /\ seen' = [id \in DOMAIN seen \cup {s.ID} |->
                            IF id = s.ID THEN <<s.Data>> ELSE seen[id]]
            /\ marked' = IF filtered(Cardinality(DOMAIN flows))
                         THEN marked \cup {<<s.ID, now>>}
                         ELSE marked
       ELSE /\ flows' = [flows EXCEPT ![s.ID] = UpdateFlow(@, s.Data)]
            /\ seen' = [seen EXCEPT ![s.ID] = Append(@, s.Data)]
            /\ UNCHANGED marked
    /\ UNCHANGED <<firstTrack, MaxFlows, MinSamples, pc, now, tstamp,
                   ended, deleted, stats, emitted>>

\* variant: <= for <
belowMinSamplesOffByOne(v) == MinSamples > 0 /\ Len(v.Data) <= MinSamples

\* cleanup: t.MinSamples > 0 && len(v.Data) < t.MinSamples
belowMinSamples(v) == MinSamples > 0 /\ Len(v.Data) < MinSamples

\* variant: Partial keeps the value it was constructed with
EndFlowKeepPartial(v) ==
    [v EXCEPT !.EndTime = now,
              !.Filtered = v.Filtered \/ belowMinSamples(v)]

\* cleanup, a flow that was not sampled
EndFlow(v) ==
    [v EXCEPT !.Partial = v.PreExisting,
              !.EndTime = now,
              !.Filtered = v.Filtered \/ belowMinSamples(v)]

\* variant: the flows inserted by this call are ended too
notSampledOrNew ==
    { id \in DOMAIN flows : ~flows[id].Sampled \/ flows[id].StartTime = now }

\* cleanup: the IDs appended to the deleted list
notSampled == { id \in DOMAIN flows : ~flows[id].Sampled }

\* variant: filtered flows are returned too
returnedAll(del) == del

\* cleanup: the ended flows appended to the result, those not filtered
returned(del) == { v \in del : ~v.Filtered }

\* variant: no delete loop
remainingAll(del) == DOMAIN flows

\* cleanup: the keys left in the table by the delete loop
remaining(del) == DOMAIN flows \ del

\* variant: firstTrack is never cleared
firstTrackKept == firstTrack

\* Track: if t.firstTrack { t.firstTrack = false }
firstTrackAfter == FALSE

\* Tracker.cleanup and the rest of Tracker.Track
Cleanup ==
    /\ pc = "update"
    /\ deleted' = { EndFlow(flows[id]) : id \in notSampled }
    /\ ended' = returned(deleted')
    /\ flows' = [id \in remaining(notSampled) |->
                    IF flows[id].Sampled
                    THEN [flows[id] EXCEPT !.Sampled = FALSE]
                    ELSE EndFlow(flows[id])]
    /\ firstTrack' = firstTrackAfter
    /\ emitted' = emitted \cup { <<v.ID, v.StartTime>> : v \in ended' }
    /\ marked' = marked \cup { <<v.ID, v.StartTime>> : v \in { w \in deleted' : w.Filtered } }
    /\ pc' = "analyze"
    /\ UNCHANGED <<MaxFlows, MinSamples, now, tstamp, n, stats, seen, batchIDs>>

----------------------------------------------------------------------------
(* Analyzer: the fields of FlowStats that are copied or counted *)

\* flow.optSeen
optSeen(f, opt) == \E i \in 1..Len(f.Data) : HasBit(f.Data[i].Options, opt)

\* flow.analyze
analyze(f) ==
    [ID |-> [ID |-> f.ID, TstampStartNs |-> f.Data[1].TstampNs],
     StartTime |-> f.StartTime,
     EndTime |-> f.EndTime,
     Duration |-> f.EndTstampNs - f.Data[1].TstampNs,
     Samples |-> Len(f.Data),
     SamplesDeduped |-> f.SamplesDeduped,
     Partial |-> f.Partial,
     Timestamps |-> optSeen(f, TCPI_OPT_TIMESTAMPS),
     SACK |-> optSeen(f, TCPI_OPT_SACK),
     ECN |-> optSeen(f, TCPI_OPT_ECN),
     ECNSeen |-> optSeen(f, TCPI_OPT_ECN_SEEN)]

\* Analyzer.Analyze on the flows Track returned (App.processSerial)
Analyze ==
    /\ pc = "analyze"
    /\ stats' = { analyze(f) : f \in ended }
    /\ pc' = "idle"
    /\ UNCHANGED <<flows, firstTrack, MaxFlows, MinSamples, now, tstamp, n,
                   ended, deleted, seen, batchIDs, emitted, marked>>

----------------------------------------------------------------------------
(* App: the master loop of Run, the four stage goroutines, Stop, and the   *)
(* netlink Sampler's session and recycling queues.                          *)
(*                                                                         *)
(* A buffered channel is the sequence of values it holds plus membership   *)
(* of its name in closed.  A Result is <<"Result", k>> for the k-th        *)
(* successful Sample call; Result.Samples turns it into the batch          *)
(* <<"Samples", k>>.  Tracker.Track is stateful, so what it returns is     *)
(* determined by the batches it has been given so far, in order: its       *)
(* output is <<"Flows", h>> with h that sequence, and Analyze turns it     *)
(* into <<"FlowStats", h>>.                                                *)

\* time.Duration is an int64
DurationBits == 64

\* time.Millisecond = 1000000 ns, as the set of its one bits
Millisecond == {6, 9, 14, 16, 17, 18, 19}

\* d << k on a time.Duration: bits shifted past the top are lost
Shl(d, k) == { i + k : i \in d } \cap (0 .. DurationBits - 1)

\* cap(App.errc)
ErrcCap == 1

Stages == {"convert", "track", "analyze", "write"}

\* NewApp and netlink.NewSampler
NewApp(serial, maxErrors, errorDelay, duration) ==
    /\ Serial \in serial
    /\ MaxErrors \in maxErrors
    /\ ErrorDelay \in errorDelay
    /\ Duration \in duration
    /\ errs = 0
    /\ mpc = "start"
    /\ r = <<>>
    /\ err = "nil"
    /\ rc = <<>> /\ sc = <<>> /\ fc = <<>> /\ fsc = <<>> /\ errc = <<>>
    /\ closed = {}
    /\ stage = [st \in Stages |-> [pc |-> "off", x |-> <<>>]]
    /\ spc = "idle"
    /\ stopErr = "nil"
    /\ session = 0
    /\ resultsCh = 0
    /\ samplesCh = 0
    /\ calls = 0 /\ opens = 0 /\ fails = 0
    /\ sampled = <<>> /\ tracked = <<>> /\ written = <<>>
    /\ werr = FALSE
    /\ waits = <<>>
    /\ dropped = FALSE
    /\ bufs = [resultsCh |-> <<>>, samplesCh |-> <<>>,
               result |-> <<>>, samples |-> <<>>,
               stale |-> FALSE]

\* the buffers of a queue
inQueue(q) == {q[i] : i \in 1..Len(q)}

\* a buffer newly allocated: one that is neither in the recycling queue q
\* nor held by an item of the pipeline
new(q, held) == CHOOSE b \in 1..(Len(q) + Len(held) + 1) : b \notin inQueue(q \o held)

\* the receive with a default case of Sampler.nlSample and of
\* Result.samplesSlice, by buffers: the buffer handed out, which is the
\* recycled one or a new one (a recycled slice that is too small is dropped
\* for a new one, which takes its name), and what stays in the queue
handedOut(q, held) == IF q # <<>> THEN Head(q) ELSE new(q, held)
stay(q) == IF q # <<>> THEN Tail(q) ELSE q

\* Sampler.RecycleResult, Sampler.RecycleSamples, by buffers
recycle(q, b) == IF Len(q) < RecycleCap THEN Append(q, b) ELSE q

\* the same buffers named anew, each by the first place that has it among
\* those of the queue and then those of the items, oldest first: a name
\* says no more than which places have the same buffer
named(q, held) ==
    LET places == q \o held
        first == [i \in 1..Len(places) |->
                     CHOOSE j \in 1..i :
                         places[j] = places[i] /\ \A l \in 1..(j - 1) : places[l] # places[i]]
    IN [queue |-> SubSeq(first, 1, Len(q)),
        held |-> SubSeq(first, Len(q) + 1, Len(places))]

\* App.processSerial by buffers, for the Result buffer rb that nlSample
\* handed out with rq left in resultsCh: Samples copies rb into the slice
\* it takes from samplesCh, RecycleResult(r), Track copies the slice,
\* RecycleSamples(s)
processSerialRecycleFirst(rb, rq) ==
    LET rq2 == recycle(rq, rb)
        sb == handedOut(bufs.samplesCh, bufs.samples)
        sq1 == stay(bufs.samplesCh)
        sq2 == recycle(sq1, sb)
    IN [bufs EXCEPT !.resultsCh = named(rq2, bufs.result).queue,
                    !.samplesCh = named(sq2, bufs.samples).queue,
                    !.stale = @ \/ rb \in inQueue(rq2) \/ sb \in inQueue(sq1)]
processSerial(rb, rq) ==
    LET sb == handedOut(bufs.samplesCh, bufs.samples)
        sq1 == stay(bufs.samplesCh)
        rq2 == recycle(rq, rb)
        sq2 == recycle(sq1, sb)
    IN [bufs EXCEPT !.resultsCh = named(rq2, bufs.result).queue,
                    !.samplesCh = named(sq2, bufs.samples).queue,
                    !.stale = @ \/ rb \in inQueue(rq) \/ sb \in inQueue(sq1)]

\* Sampler.RecycleResult, Sampler.RecycleSamples: select with a default case
tryPushBlocking(q, cap) == q + 1
tryPush(q, cap) == IF q < cap THEN q + 1 ELSE q

\* the receive with a default case of Sampler.nlSample and Result.samplesSlice
tryPop(q) == IF q > 0 THEN q - 1 ELSE q

\* Result.Samples
ResultSamplesStale(res) == <<"Samples", IF res[2] > 1 THEN res[2] - 1 ELSE res[2]>>
ResultSamples(res) == <<"Samples", res[2]>>

\* Tracker.Track, by the batches it has been given
Track(s) == <<"Flows", Append(tracked, s)>>

\* Analyzer.Analyze
AnalyzeFlows(f) == <<"FlowStats", f[2]>>

\* Run, up to the loop: the stage goroutines are started unless Serial
RunStart ==
    /\ mpc = "start"
    /\ mpc' = "head"
    /\ stage' = [st \in Stages |->
                   [pc |-> IF Serial THEN "off" ELSE "range", x |-> <<>>]]
    /\ UNCHANGED <<bufs, Serial, MaxErrors, ErrorDelay, Duration, errs, r, err,
                   rc, sc, fc, fsc, errc, closed, spc, stopErr,
                   session, resultsCh, samplesCh,
                   calls, opens, fails, sampled, tracked, written, werr, waits, dropped>>

\* Run, head of the Outer loop
abortAt == errs >= MaxErrors

RunHead ==
    /\ mpc = "head"
    /\ IF abortAt
         THEN mpc' = "shutdown" /\ err' = "aborted"
         ELSE /\ mpc' = IF errs > 0 THEN "waitOnError" ELSE "wait"
              /\ err' = err
    /\ UNCHANGED <<bufs, Serial, MaxErrors, ErrorDelay, Duration, errs, r,
                   rc, sc, fc, fsc, errc, closed, stage, spc, stopErr,
                   session, resultsCh, samplesCh,
                   calls, opens, fails, sampled, tracked, written, werr, waits, dropped>>

\* App.waitOnError: d := a.ErrorDelay << uint(a.errs-1)
backoffConstant == ErrorDelay
backoff == Shl(ErrorDelay, errs - 1)

\* App.wait, the cases that stop the loop: <-a.stop, <-a.dur, err = <-a.errc
waitStopped ==
    /\ mpc \in {"waitOnError", "wait"}
    /\ \/ /\ "stop" \in closed
          /\ err' = "nil" /\ errc' = errc
       \/ /\ Duration > 0
          /\ err' = "nil" /\ errc' = errc
       \/ /\ errc # <<>>
          /\ err' = Head(errc) /\ errc' = Tail(errc)
       \/ /\ errc = <<>> /\ "errc" \in closed
          /\ err' = "nil" /\ errc' = errc
    /\ mpc' = "shutdown"
    /\ UNCHANGED <<bufs, Serial, MaxErrors, ErrorDelay, Duration, errs, r,
                   rc, sc, fc, fsc, closed, stage, spc, stopErr,
                   session, resultsCh, samplesCh,
                   calls, opens, fails, sampled, tracked, written, werr, waits, dropped>>

\* App.waitOnError, case <-ch of wait: the backoff timer has expired
waitOnError ==
    /\ mpc = "waitOnError"
    /\ mpc' = "wait"
    /\ err' = "nil"
    /\ waits' = Append(waits, <<"ErrorDelay", backoff>>)
    /\ UNCHANGED <<bufs, Serial, MaxErrors, ErrorDelay, Duration, errs, r,
                   rc, sc, fc, fsc, errc, closed, stage, spc, stopErr,
                   session, resultsCh, samplesCh,
                   calls, opens, fails, sampled, tracked, written, werr, dropped>>

\* App.wait(tck.C), case <-ch: the ticker has ticked after one Interval
waitTick(maxCalls) ==
    /\ mpc = "wait"
    /\ calls < maxCalls
    /\ mpc' = "sample"
    /\ err' = "nil"
    /\ waits' = Append(waits, <<"Interval">>)
    /\ UNCHANGED <<bufs, Serial, MaxErrors, ErrorDelay, Duration, errs, r,
                   rc, sc, fc, fsc, errc, closed, stage, spc, stopErr,
                   session, resultsCh, samplesCh,
                   calls, opens, fails, sampled, tracked, written, werr, dropped>>

\* Sampler.nlOpen: a session is opened only when there is none
nlOpen == IF session = 0 THEN opens + 1 ELSE session

\* Sampler.Sample fails: nl_open fails and leaves the session nil, or the
\* exchange of nl_sample fails and nlClose resets it; then a.errs++ and break.
\* nlSample has taken a recycled Result, if there was one, before the exchange.
nlCloseKeep == session
nlClose == 0

SampleFails ==
    /\ mpc = "sample"
    /\ \/ /\ session = 0
          /\ UNCHANGED <<session, opens, resultsCh, bufs>>
       \/ /\ opens' = IF session = 0 THEN opens + 1 ELSE opens
          /\ session' = nlClose
          /\ resultsCh' = tryPop(resultsCh)
          /\ bufs' = [bufs EXCEPT
                        !.resultsCh = named(stay(bufs.resultsCh), bufs.result).queue,
                        !.result = named(stay(bufs.resultsCh), bufs.result).held]
    /\ calls' = calls + 1
    /\ fails' = fails + 1
    /\ errs' = errs + 1
    /\ err' = "sample"
    /\ mpc' = "head"
    /\ waits' = <<>>
    /\ UNCHANGED <<Serial, MaxErrors, ErrorDelay, Duration, r,
                   rc, sc, fc, fsc, errc, closed, stage, spc, stopErr,
                   samplesCh, sampled, tracked, written, werr, dropped>>

\* Writer.Write returns nil, or an error when the sink may fail
WriteResults(mayFail) == IF mayFail THEN {"nil", "writer"} ELSE {"nil"}

\* Sampler.Sample succeeds: a.errs = 0; then App.processSerial when Serial
\* (Samples, RecycleResult, Track, RecycleSamples, Analyze, Write), else the
\* master goes on to a.rc <- r
resetKeep == errs
reset == 0

SampleOK(mayFail) ==
    /\ mpc = "sample"
    /\ session' = nlOpen
    /\ opens' = IF session = 0 THEN opens + 1 ELSE opens
    /\ calls' = calls + 1
    /\ fails' = 0
    /\ errs' = reset
    /\ waits' = <<>>
    /\ LET res == <<"Result", Len(sampled) + 1>>
           s == ResultSamples(res)
           fs == AnalyzeFlows(Track(s))
           rb == handedOut(bufs.resultsCh, bufs.result)
           rq == stay(bufs.resultsCh)
       IN  /\ sampled' = Append(sampled, res)
           /\ IF Serial
                THEN /\ bufs' = processSerial(rb, rq)
                     /\ samplesCh' = tryPush(tryPop(samplesCh), RecycleCap)
                     /\ resultsCh' = tryPush(tryPop(resultsCh), RecycleCap)
                     /\ dropped' = (dropped \/ tryPop(samplesCh) = RecycleCap
                                             \/ tryPop(resultsCh) = RecycleCap)
                     /\ tracked' = Append(tracked, s)
                     /\ written' = Append(written, fs)
                     /\ \E e \in WriteResults(mayFail) :
                          /\ err' = e
                          /\ werr' = (e # "nil")
                          /\ mpc' = IF e = "nil" THEN "wait" ELSE "shutdown"
                     /\ r' = r
                ELSE /\ bufs' = [bufs EXCEPT
                                    !.resultsCh = named(rq, Append(bufs.result, rb)).queue,
                                    !.result = named(rq, Append(bufs.result, rb)).held,
                                    !.stale = @ \/ rb \in inQueue(rq)]
                     /\ resultsCh' = tryPop(resultsCh)
                     /\ r' = res
                     /\ err' = "nil"
                     /\ mpc' = "send"
                     /\ UNCHANGED <<samplesCh, tracked, written, werr, dropped>>
    /\ UNCHANGED <<Serial, MaxErrors, ErrorDelay, Duration,
                   rc, sc, fc, fsc, errc, closed, stage, spc, stopErr>>

\* a.rc <- r: blocks while the channel is full
RunSend ==
    /\ mpc = "send"
    /\ Len(rc) < RcCap
    /\ rc' = Append(rc, r)
    /\ r' = <<>>
    /\ mpc' = "wait"
    /\ UNCHANGED <<bufs, Serial, MaxErrors, ErrorDelay, Duration, errs, err,
                   sc, fc, fsc, errc, closed, stage, spc, stopErr,
                   session, resultsCh, samplesCh,
                   calls, opens, fails, sampled, tracked, written, werr, waits, dropped>>

\* Run returns and its deferred calls begin, last deferred first:
\* Sampler.Close
RunReturns ==
    /\ mpc' = "closeWriter"
    /\ session' = nlClose

\* Run after the loop, Serial: return
RunEndSerial ==
    /\ mpc = "shutdown"
    /\ Serial
    /\ RunReturns
    /\ UNCHANGED <<bufs, Serial, MaxErrors, ErrorDelay, Duration, errs, r, err,
                   rc, sc, fc, fsc, errc, closed, stage, spc, stopErr,
                   resultsCh, samplesCh,
                   calls, opens, fails, sampled, tracked, written, werr, waits, dropped>>

\* Run after the loop, pipelined: close(a.rc)
RunCloseRc ==
    /\ mpc = "shutdown"
    /\ ~Serial
    /\ closed' = closed \cup {"rc"}
    /\ mpc' = "final"
    /\ UNCHANGED <<bufs, Serial, MaxErrors, ErrorDelay, Duration, errs, r, err,
                   rc, sc, fc, fsc, errc, stage, spc, stopErr,
                   session, resultsCh, samplesCh,
                   calls, opens, fails, sampled, tracked, written, werr, waits, dropped>>

\* Run after close(a.rc): e := <-a.errc, which blocks until the write stage
\* has sent an error or closed the channel; then return
RunFinalNoWait ==
    /\ mpc = "final"
    /\ err' = IF errc # <<>> /\ err = "nil" THEN Head(errc) ELSE err
    /\ errc' = IF errc # <<>> THEN Tail(errc) ELSE errc
    /\ RunReturns
    /\ UNCHANGED <<bufs, Serial, MaxErrors, ErrorDelay, Duration, errs, r,
                   rc, sc, fc, fsc, closed, stage, spc, stopErr,
                   resultsCh, samplesCh,
                   calls, opens, fails, sampled, tracked, written, werr, waits, dropped>>

RunFinal ==
    /\ mpc = "final"
    /\ errc # <<>> \/ "errc" \in closed
    /\ err' = IF errc # <<>> /\ err = "nil" THEN Head(errc) ELSE err
    /\ errc' = IF errc # <<>> THEN Tail(errc) ELSE errc
    /\ RunReturns
    /\ UNCHANGED <<bufs, Serial, MaxErrors, ErrorDelay, Duration, errs, r,
                   rc, sc, fc, fsc, closed, stage, spc, stopErr,
                   resultsCh, samplesCh,
                   calls, opens, fails, sampled, tracked, written, werr, waits, dropped>>

\* the second deferred call of Run: a.writer.Close()
RunCloseWriter ==
    /\ mpc = "closeWriter"
    /\ closed' = closed \cup {"writer"}
    /\ mpc' = "closeDone"
    /\ UNCHANGED <<bufs, Serial, MaxErrors, ErrorDelay, Duration, errs, r, err,
                   rc, sc, fc, fsc, errc, stage, spc, stopErr,
                   session, resultsCh, samplesCh,
                   calls, opens, fails, sampled, tracked, written, werr, waits, dropped>>

\* the first deferred call of Run, which runs last: close(a.done)
RunCloseDone ==
    /\ mpc = "closeDone"
    /\ closed' = closed \cup {"done"}
    /\ mpc' = "done"
    /\ UNCHANGED <<bufs, Serial, MaxErrors, ErrorDelay, Duration, errs, r, err,
                   rc, sc, fc, fsc, errc, stage, spc, stopErr,
                   session, resultsCh, samplesCh,
                   calls, opens, fails, sampled, tracked, written, werr, waits, dropped>>

\* a stage's for ... range over its input channel ends: the deferred close
\* of its output channel
rangeEndsNoClose(st, in, inName, outName) ==
    /\ stage[st].pc = "range"
    /\ in = <<>> /\ inName \in closed
    /\ closed' = closed
    /\ stage' = [stage EXCEPT ![st].pc = "exit"]

rangeEndsUndrained(st, in, inName, outName) ==
    /\ stage[st].pc = "range"
    /\ inName \in closed
    /\ closed' = closed \cup {outName}
    /\ stage' = [stage EXCEPT ![st].pc = "exit"]
rangeEnds(st, in, inName, outName) ==
    /\ stage[st].pc = "range"
    /\ in = <<>> /\ inName \in closed
    /\ closed' = closed \cup {outName}
    /\ stage' = [stage EXCEPT ![st].pc = "exit"]

\* App.convert: r := <-a.rc and r.Samples(), which takes a recycled slice if
\* there is one
convertRange ==
    /\ \/ /\ stage["convert"].pc = "range"
          /\ rc # <<>>
          /\ rc' = Tail(rc)
          /\ stage' = [stage EXCEPT !["convert"] =
                         [pc |-> "send", x |-> ResultSamples(Head(rc))]]
          /\ samplesCh' = tryPop(samplesCh)
          /\ LET sb == handedOut(bufs.samplesCh, bufs.samples)
                 sq == stay(bufs.samplesCh)
             IN bufs' = [bufs EXCEPT
                           !.samplesCh = named(sq, Append(bufs.samples, sb)).queue,
                           !.samples = named(sq, Append(bufs.samples, sb)).held,
                           !.stale = @ \/ Head(bufs.result) \in inQueue(bufs.resultsCh)
                                       \/ sb \in inQueue(sq)]
          /\ closed' = closed
       \/ /\ rangeEnds("convert", rc, "rc", "sc")
          /\ UNCHANGED <<rc, samplesCh, bufs>>
    /\ UNCHANGED <<Serial, MaxErrors, ErrorDelay, Duration, errs, mpc, r, err,
                   sc, fc, fsc, errc, spc, stopErr, session, resultsCh,
                   calls, opens, fails, sampled, tracked, written, werr, waits, dropped>>

\* App.convert: a.sc <- samples, then RecycleResult(r)
convertSend ==
    /\ stage["convert"].pc = "send"
    /\ Len(sc) < ScCap
    /\ sc' = Append(sc, stage["convert"].x)
    /\ stage' = [stage EXCEPT !["convert"] = [pc |-> "range", x |-> <<>>]]
    /\ resultsCh' = tryPush(resultsCh, RecycleCap)
    /\ dropped' = (dropped \/ resultsCh = RecycleCap)
    /\ LET rq == recycle(bufs.resultsCh, Head(bufs.result))
       IN bufs' = [bufs EXCEPT !.resultsCh = named(rq, Tail(bufs.result)).queue,
                               !.result = named(rq, Tail(bufs.result)).held]
    /\ UNCHANGED <<Serial, MaxErrors, ErrorDelay, Duration, errs, mpc, r, err,
                   rc, fc, fsc, errc, closed, spc, stopErr, session, samplesCh,
                   calls, opens, fails, sampled, tracked, written, werr, waits>>

\* App.track: s := <-a.sc and a.tracker.Track(s)
trackRange ==
    /\ \/ /\ stage["track"].pc = "range"
          /\ sc # <<>>
          /\ sc' = Tail(sc)
          /\ stage' = [stage EXCEPT !["track"] =
                         [pc |-> "send", x |-> Track(Head(sc))]]
          /\ tracked' = Append(tracked, Head(sc))
          /\ bufs' = [bufs EXCEPT
                        !.stale = @ \/ Head(bufs.samples) \in inQueue(bufs.samplesCh)]
          /\ closed' = closed
       \/ /\ rangeEnds("track", sc, "sc", "fc")
          /\ UNCHANGED <<sc, tracked, bufs>>
    /\ UNCHANGED <<Serial, MaxErrors, ErrorDelay, Duration, errs, mpc, r, err,
                   rc, fc, fsc, errc, spc, stopErr, session, resultsCh, samplesCh,
                   calls, opens, fails, sampled, written, werr, waits, dropped>>

\* App.track: a.fc <- flows, then RecycleSamples(s)
trackSend ==
    /\ stage["track"].pc = "send"
    /\ Len(fc) < FcCap
    /\ fc' = Append(fc, stage["track"].x)
    /\ stage' = [stage EXCEPT !["track"] = [pc |-> "range", x |-> <<>>]]
    /\ samplesCh' = tryPush(samplesCh, RecycleCap)
    /\ dropped' = (dropped \/ samplesCh = RecycleCap)
    /\ LET sq == recycle(bufs.samplesCh, Head(bufs.samples))
       IN bufs' = [bufs EXCEPT !.samplesCh = named(sq, Tail(bufs.samples)).queue,
                               !.samples = named(sq, Tail(bufs.samples)).held]
    /\ UNCHANGED <<Serial, MaxErrors, ErrorDelay, Duration, errs, mpc, r, err,
                   rc, sc, fsc, errc, closed, spc, stopErr, session, resultsCh,
                   calls, opens, fails, sampled, tracked, written, werr, waits>>

\* App.analyze: f := <-a.fc and a.analyzer.Analyze(f)
analyzeRange ==
    /\ \/ /\ stage["analyze"].pc = "range"
          /\ fc # <<>>
          /\ fc' = Tail(fc)
          /\ stage' = [stage EXCEPT !["analyze"] =
                         [pc |-> "send", x |-> AnalyzeFlows(Head(fc))]]
          /\ closed' = closed
       \/ /\ rangeEnds("analyze", fc, "fc", "fsc")
          /\ fc' = fc
    /\ UNCHANGED <<bufs, Serial, MaxErrors, ErrorDelay, Duration, errs, mpc, r, err,
                   rc, sc, fsc, errc, spc, stopErr, session, resultsCh, samplesCh,
                   calls, opens, fails, sampled, tracked, written, werr, waits, dropped>>

\* App.analyze: a.fsc <- stats
analyzeSend ==
    /\ stage["analyze"].pc = "send"
    /\ Len(fsc) < FscCap
    /\ fsc' = Append(fsc, stage["analyze"].x)
    /\ stage' = [stage EXCEPT !["analyze"] = [pc |-> "range", x |-> <<>>]]
    /\ UNCHANGED <<bufs, Serial, MaxErrors, ErrorDelay, Duration, errs, mpc, r, err,
                   rc, sc, fc, errc, closed, spc, stopErr, session, resultsCh, samplesCh,
                   calls, opens, fails, sampled, tracked, written, werr, waits, dropped>>

\* App.write: fs := <-a.fsc and a.writer.Write(fs); on an error a.errc <- err,
\* break, and the deferred close(a.errc).  errc is empty then: only this
\* goroutine sends on it and it sends once.
write(mayFail) ==
    /\ \/ /\ stage["write"].pc = "range"
          /\ fsc # <<>>
          /\ fsc' = Tail(fsc)
          /\ written' = Append(written, Head(fsc))
          /\ \E e \in WriteResults(mayFail) :
               IF e = "nil"
                 THEN UNCHANGED <<stage, errc, closed, werr>>
                 ELSE /\ Len(errc) < ErrcCap
                      /\ errc' = Append(errc, e)
                      /\ closed' = closed \cup {"errc"}
                      /\ stage' = [stage EXCEPT !["write"].pc = "exit"]
                      /\ werr' = TRUE
       \/ /\ rangeEnds("write", fsc, "fsc", "errc")
          /\ UNCHANGED <<fsc, written, errc, werr>>
    /\ UNCHANGED <<bufs, Serial, MaxErrors, ErrorDelay, Duration, errs, mpc, r, err,
                   rc, sc, fc, spc, stopErr, session, resultsCh, samplesCh,
                   calls, opens, fails, sampled, tracked, waits, dropped>>

\* App.Stop: close(a.stop)
Stop ==
    /\ spc = "idle"
    /\ closed' = closed \cup {"stop"}
    /\ spc' = "select"
    /\ UNCHANGED <<bufs, Serial, MaxErrors, ErrorDelay, Duration, errs, mpc, r, err,
                   rc, sc, fc, fsc, errc, stage, stopErr,
                   session, resultsCh, samplesCh,
                   calls, opens, fails, sampled, tracked, written, werr, waits, dropped>>

\* App.Stop, case <-a.done
StopDoneNoWait ==
    /\ spc = "select"
    /\ spc' = "returned"
    /\ stopErr' = "nil"
    /\ UNCHANGED <<bufs, Serial, MaxErrors, ErrorDelay, Duration, errs, mpc, r, err,
                   rc, sc, fc, fsc, errc, closed, stage,
                   session, resultsCh, samplesCh,
                   calls, opens, fails, sampled, tracked, written, werr, waits, dropped>>

StopDone ==
    /\ spc = "select"
    /\ "done" \in closed
    /\ spc' = "returned"
    /\ stopErr' = "nil"
    /\ UNCHANGED <<bufs, Serial, MaxErrors, ErrorDelay, Duration, errs, mpc, r, err,
                   rc, sc, fc, fsc, errc, closed, stage,
                   session, resultsCh, samplesCh,
                   calls, opens, fails, sampled, tracked, written, werr, waits, dropped>>

\* App.Stop, case <-time.After(a.StopTimeout)
StopTimeout ==
    /\ spc = "select"
    /\ spc' = "returned"
    /\ stopErr' = "timeout"
    /\ UNCHANGED <<bufs, Serial, MaxErrors, ErrorDelay, Duration, errs, mpc, r, err,
                   rc, sc, fc, fsc, errc, closed, stage,
                   session, resultsCh, samplesCh,
                   calls, opens, fails, sampled, tracked, written, werr, waits, dropped>>

----------------------------------------------------------------------------
(* nl_sample: the request and the loop over the reply.  A datagram is the  *)
(* sequence of netlink messages NLMSG_OK and NLMSG_NEXT walk; a message is  *)
(* DONE, ERROR (with the kernel's negative code, possibly truncated below   *)
(* a struct nlmsgerr) or an inet_diag message with its attributes, of       *)
(* which at most one is the tcp_info (INET_DIAG_INFO).                      *)

ENODATA == 61
EAGAIN == 11
EINVAL == 22

Messages ==
    {[type |-> "DONE"]}
    \cup {[type |-> "ERROR", error |-> -EINVAL, truncated |-> t] : t \in BOOLEAN}
    \cup {[type |-> "DIAG", attrs |-> a] : a \in {<<>>, <<"OTHER">>, <<"INFO">>}}

\* the datagrams of at most maxLen messages
Datagrams(maxLen) == UNION {[1..l -> Messages] : l \in 1..maxLen}

\* the messages of a datagram before its first DONE or ERROR
RECURSIVE Before(_)
Before(d) ==
    IF d = <<>> \/ Head(d).type # "DIAG" THEN <<>>
    ELSE <<Head(d)>> \o Before(Tail(d))

\* the number of attributes of type INET_DIAG_INFO of a message
RECURSIVE Infos(_)
Infos(a) ==
    IF a = <<>> THEN 0
    ELSE (IF Head(a) = "INFO" THEN 1 ELSE 0) + Infos(Tail(a))

\* before nl_sample is called; *stats is the zeroed struct of a new Result
\* the descriptors of a process that has opened none: stdin, stdout, stderr
Stdio == {0, 1, 2}

\* socket(): the lowest descriptor that is not open
lowest(fds) == CHOOSE d \in 0..Cardinality(fds) : d \notin fds /\ \A e \in 0..(d - 1) : e \in fds

\* close(d): EBADF and no effect if d is not open
close(fds, d) == fds \ {d}

\* the steps of nl_open that can fail, in order
OpenSteps == <<"calloc", "socket", "setsockopts", "getsockopt", "nl_port_filter">>

\* nl_open, failing at the step fail or at none: s = calloc(...) has fd 0
\* until s->fd = fd is reached; err_nls returns, err_sock frees s before,
\* err_sockopt and err_filter close s->fd before that.  Sampler.nlOpen calls
\* it with &s.session when s.session is nil.
nl_open(fail, maxCalls) ==
    /\ nlo.nls = <<>>
    /\ nlo.calls < maxCalls
    /\ LET s == [fd |-> 0]
           fd == lowest(nlo.fds)
           opened == nlo.fds \cup {fd}
           entry == [nlo EXCEPT !.calls = @ + 1, !.before = nlo.fds,
                                !.sock = -1, !.failed = fail]
           calloc == nlo.blocks + 1
           free == calloc - 1
       IN nlo' =
            CASE fail = "calloc" ->
                   [entry EXCEPT !.ret = -1]
              [] fail = "socket" ->
                   [entry EXCEPT !.ret = -1, !.blocks = free]
              [] fail = "setsockopts" ->
                   [entry EXCEPT !.ret = -1, !.blocks = free,
                                 !.sock = fd, !.fds = opened]
              [] fail = "getsockopt" ->
                   [entry EXCEPT !.ret = -1, !.blocks = free,
                                 !.sock = fd, !.fds = close(opened, s.fd)]
              [] fail = "nl_port_filter" ->
                   [entry EXCEPT !.ret = -1, !.blocks = free,
                                 !.sock = fd,
                                 !.fds = close(opened, [s EXCEPT !.fd = fd].fd)]
              [] OTHER ->
                   [entry EXCEPT !.ret = 0, !.blocks = calloc,
                                 !.sock = fd, !.fds = opened,
                                 !.nls = <<[s EXCEPT !.fd = fd]>>]

\* nl_close, which Sampler.nlClose calls when s.session is not nil, setting
\* it to nil after
nl_close ==
    /\ nlo.nls # <<>>
    /\ nlo' = [nlo EXCEPT !.fds = close(@, nlo.nls[1].fd), !.blocks = @ - 1,
                          !.nls = <<>>]

\* NewSampler: no session, and the process has the descriptors fds open
NoSession(fds) ==
    nlo = [fds |-> fds, blocks |-> 0, nls |-> <<>>, ret |-> 0,
           calls |-> 0, before |-> fds, sock |-> -1, failed |-> "none"]

NlIdle ==
    /\ NoSession(Stdio)
    /\ nlpc = "idle"
    /\ h = <<>>
    /\ nsamples = 0 /\ msgs = 0 /\ msgslen = 0
    /\ nlret = 0 /\ errno = 0
    /\ nlstats = [samples |-> 0, msgs |-> 0, msgslen |-> 0]
    /\ records = 0 /\ parsable = 0 /\ parsed = 0
    /\ clock = 0 /\ ts = 0
    /\ samples = <<>> /\ results = <<>>

\* nl_sample: send_inet_diag succeeds, or fails and nl_sample returns -1
nlSend ==
    /\ nlpc = "idle"
    /\ \/ /\ nlpc' = "recv"
          /\ UNCHANGED <<nlret, errno>>
       \/ /\ nlpc' = "ret"
          /\ nlret' = -1
          /\ errno' = EAGAIN
    /\ UNCHANGED <<h, nsamples, msgs, msgslen, nlstats, records, parsable, parsed,
                   clock, ts, samples, results>>

\* recv fails (the receive timeout): return -1
nlRecvFails ==
    /\ nlpc = "recv"
    /\ nlpc' = "ret"
    /\ nlret' = -1
    /\ errno' = EAGAIN
    /\ UNCHANGED <<h, nsamples, msgs, msgslen, nlstats, records, parsable, parsed,
                   clock, ts, samples, results>>

\* tstamp_nanos: the readings clock_gettime(CLOCK_MONOTONIC) can return
\* after a reading of c: the clock does not go back, and it may not have
\* advanced
tstamp_nanosRealtime(c) == 0..(IF c < NlMaxClock THEN c + 1 ELSE c)
tstamp_nanos(c) == IF c < NlMaxClock THEN {c, c + 1} ELSE {c}

\* recv returns a datagram: ts = tstamp_nanos(), msgs++, msgslen += n, h at
\* its first message
nlRecv(d, maxDgrams) ==
    /\ nlpc = "recv"
    /\ msgs < maxDgrams
    /\ nlpc' = "walk"
    /\ \E t \in tstamp_nanos(clock) : ts' = t /\ clock' = t
    /\ h' = d
    /\ msgs' = msgs + 1
    /\ msgslen' = msgslen + Len(d)
    /\ records' = records + Cardinality({i \in 1..Len(Before(d)) : Infos(d[i].attrs) > 0})
    /\ parsable' = parsable + Cardinality({i \in 1..Len(Before(d)) : d[i].attrs # <<>>})
    /\ UNCHANGED <<nsamples, nlret, errno, nlstats, parsed, samples, results>>

\* NLMSG_OK fails at the end of the datagram: back to recv
nlNextDatagram ==
    /\ nlpc = "walk"
    /\ h = <<>>
    /\ nlpc' = "recv"
    /\ UNCHANGED <<h, nsamples, msgs, msgslen, nlret, errno, nlstats,
                   records, parsable, parsed, clock, ts, samples, results>>

\* h->nlmsg_type == NLMSG_DONE: fill *stats and return 0
nlDone ==
    /\ nlpc = "walk"
    /\ h # <<>> /\ Head(h).type = "DONE"
    /\ nlstats' = [samples |-> nsamples, msgs |-> msgs, msgslen |-> msgslen]
    /\ nlret' = 0
    /\ nlpc' = "ret"
    /\ results' = Append(results, [i \in 1..Len(samples) |-> samples[i].tstamp_ns])
    /\ UNCHANGED <<h, nsamples, msgs, msgslen, errno, records, parsable, parsed,
                   clock, ts, samples>>

\* h->nlmsg_type == NLMSG_ERROR: errno = ENODATA when the message is shorter
\* than a struct nlmsgerr, else -err->error; return -1
errnoOf(m) == IF m.truncated THEN ENODATA ELSE -m.error

nlError ==
    /\ nlpc = "walk"
    /\ h # <<>> /\ Head(h).type = "ERROR"
    /\ errno' = errnoOf(Head(h))
    /\ nlret' = -1
    /\ nlpc' = "ret"
    /\ UNCHANGED <<h, nsamples, msgs, msgslen, nlstats, records, parsable, parsed,
                   clock, ts, samples, results>>

\* any other message: parse when rtalen > 0, one sample for every attribute
\* of type INET_DIAG_INFO; then NLMSG_NEXT
parseCountsAll(m) == nsamples + Len(m.attrs)
parse(m) == nsamples + Infos(m.attrs)

\* parse: the nl_samples it appends for a message of the datagram msgs
\* when called with tstamp_ns
parsedSamples(m, tstamp_ns) ==
    [i \in 1..Infos(m.attrs) |-> [dgram |-> msgs, tstamp_ns |-> tstamp_ns]]

nlParse ==
    /\ nlpc = "walk"
    /\ h # <<>> /\ Head(h).type = "DIAG"
    /\ IF Head(h).attrs # <<>>
         THEN /\ nsamples' = parse(Head(h)) /\ parsed' = parsed + 1
              /\ samples' = samples \o parsedSamples(Head(h), ts)
         ELSE UNCHANGED <<nsamples, parsed, samples>>
    /\ h' = Tail(h)
    /\ UNCHANGED <<nlpc, msgs, msgslen, nlret, errno, nlstats, records, parsable,
                   clock, ts, results>>

\* Sampler.nlSample calls nl_sample again: its locals start over and it
\* fills *samples from the start
nlSampleAgain(maxResults) ==
    /\ nlpc = "ret"
    /\ Len(results) < maxResults
    /\ nlpc' = "idle"
    /\ h' = <<>>
    /\ nsamples' = 0 /\ msgs' = 0 /\ msgslen' = 0
    /\ samples' = <<>>
    /\ records' = 0 /\ parsable' = 0 /\ parsed' = 0
    /\ UNCHANGED <<nlret, errno, nlstats, clock, ts, results>>

----------------------------------------------------------------------------
(* The port filter: nl_init (nl_diag.c), nl_port_filter, pfops and         *)
(* pfops_count (nl_filter.c), and the kernel's run of the bytecode on one  *)
(* socket.  A port list is the flattened sequence lo, hi, lo, hi, ... that *)
(* parsePortRanges returns.  An op is a struct inet_diag_bc_op: its code,  *)
(* its one-byte yes and its two-byte no; the op after a comparison holds   *)
(* the port to compare with in its no.  Positions in *filter are counted   *)
(* in ops from its start.                                                  *)

opsz == 4           \* sizeof(struct inet_diag_bc_op)
YesBits == 8        \* width of inet_diag_bc_op.yes
NoBits == 16        \* width of inet_diag_bc_op.no

\* the value an unsigned field of the width keeps of x
Trunc(x, bits) == x % (2 ^ bits)

\* an op as calloc leaves it: code 0 is INET_DIAG_BC_NOP
NOP == [code |-> "NOP", yes |-> 0, no |-> 0]

\* an op with its fields stored as nl_filter.c stores them
Op(code, yes, no) ==
    [code |-> code, yes |-> Trunc(yes, YesBits), no |-> Trunc(no, NoBits)]

\* the ranges lo,hi of a configuration and the port lists of at most
\* maxRanges of them
Ranges == {<<80, 80>>, <<443, 443>>, <<80, 443>>}

parsePortRanges(rs) ==
    [j \in 1..(2 * Len(rs)) |-> rs[(j + 1) \div 2][2 - (j % 2)]]

PortLists(maxRanges) ==
    {parsePortRanges(rs) : rs \in UNION {[1..k -> Ranges] : k \in 0..maxRanges}}

\* what uname and the sscanf of nl_init can see: uname fails, or release
\* starts with the dot-separated unsigned numbers given (4.16 without a
\* third number, or no number at all, among them)
Unames ==
    {[ok |-> FALSE, release |-> <<>>]}
    \cup {[ok |-> TRUE, release |-> rel] :
             rel \in {<<>>, <<4, 16>>, <<4, 9, 0>>, <<4, 16, 0>>, <<5, 4, 0>>}}

\* sscanf(un.release, "%u.%u.%u", ...): the number of fields converted
sscanf(release) == IF Len(release) < 3 THEN Len(release) ELSE 3

\* before nl_init, with source and destination port lists configured
FilterInit(slists, dlists) ==
    /\ fpc = "boot"
    /\ un = [ok |-> FALSE, release |-> <<>>]
    /\ eq_op_support = FALSE
    /\ sports \in slists /\ dports \in dlists
    /\ filter = <<>> /\ flen = 0
    /\ op = 0
    /\ pkt = [sport |-> 0, dport |-> 0]
    /\ bclen = 0
    /\ visited = {}

\* no port filter configured (the default of main)
FilterIdle == FilterInit({<<>>}, {<<>>})

\* nl_init: the test of maj and min
atLeast4(maj, min) == maj >= 4
atLeast416(maj, min) == maj > 4 \/ (maj = 4 /\ min >= 16)

\* nl_init
nl_init(u) ==
    /\ fpc = "boot"
    /\ un' = u
    /\ eq_op_support' =
           IF ~u.ok \/ sscanf(u.release) # 3 THEN FALSE
           ELSE atLeast416(u.release[1], u.release[2])
    /\ fpc' = "idle"
    /\ UNCHANGED <<sports, dports, filter, flen, op, pkt, bclen, visited>>

\* pfops_count: 3 for each range its loop finds to be an equality, 5 for
\* each other range, less the one JMP the last range does not have
pfops_count(ports, len) ==
    IF len = 0 THEN 0
    ELSE LET is == {i \in 0..(len - 1) : i % 2 = 0}
             eqs == {i \in is : eq_op_support /\ ports[i + 1] = ports[i + 2]}
         IN 3 * Cardinality(eqs) + 5 * Cardinality(is \ eqs) - 1

\* pfops: the ops one iteration of its loop writes, for the range at
\* ports[i], ports[i+1], with op the number of ops before it in *filter and
\* opend that of the end of the call's ops
pfopsRangeJmpFromStart(ports, len, dest, rops, opend, i, op0) ==
    LET last == i = len - 2
        lo == ports[i + 1]
        hi == ports[i + 2]
        rest == IF last THEN rops ELSE 0
        pred ==
            IF eq_op_support /\ lo = hi
            THEN << Op(IF dest THEN "D_EQ" ELSE "S_EQ", 2 * opsz, (rest + 3) * opsz),
                    Op("NOP", 0, lo) >>
            ELSE << Op(IF dest THEN "D_GE" ELSE "S_GE", 2 * opsz, (rest + 5) * opsz),
                    Op("NOP", 0, lo),
                    Op(IF dest THEN "D_LE" ELSE "S_LE", 2 * opsz, (rest + 3) * opsz),
                    Op("NOP", 0, hi) >>
    IN IF last THEN pred
       ELSE Append(pred, Op("JMP", opsz, (opend - op0) * opsz))

pfopsRange(ports, len, dest, rops, opend, i, op0) ==
    LET last == i = len - 2
        lo == ports[i + 1]
        hi == ports[i + 2]
        rest == IF last THEN rops ELSE 0
        pred ==
            IF eq_op_support /\ lo = hi
            THEN << Op(IF dest THEN "D_EQ" ELSE "S_EQ", 2 * opsz, (rest + 3) * opsz),
                    Op("NOP", 0, lo) >>
            ELSE << Op(IF dest THEN "D_GE" ELSE "S_GE", 2 * opsz, (rest + 5) * opsz),
                    Op("NOP", 0, lo),
                    Op(IF dest THEN "D_LE" ELSE "S_LE", 2 * opsz, (rest + 3) * opsz),
                    Op("NOP", 0, hi) >>
    IN IF last THEN pred
       ELSE Append(pred, Op("JMP", opsz, (opend - (op0 + Len(pred))) * opsz))

\* pfops: the ops its iterations from i = 2a to i = 2b write, the first at
\* op; an iteration starts where the one before it stopped.  The iterations
\* are put together by halves, which keeps the evaluation shallow for long
\* port lists.
RECURSIVE pfopsRanges(_, _, _, _, _, _, _, _)
pfopsRanges(ports, len, dest, rops, opend, a, b, op0) ==
    IF a = b THEN pfopsRange(ports, len, dest, rops, opend, 2 * a, op0)
    ELSE LET mid == (a + b) \div 2
             left == pfopsRanges(ports, len, dest, rops, opend, a, mid, op0)
         IN left \o pfopsRanges(ports, len, dest, rops, opend, mid + 1, b,
                                op0 + Len(left))

\* pfops: the ops a call writes from op on
pfops(ports, len, dest, rops, op0) ==
    IF len = 0 THEN <<>>
    ELSE pfopsRanges(ports, len, dest, rops, op0 + pfops_count(ports, len),
                     0, len \div 2 - 1, op0)

\* the rops nl_port_filter passes to pfops for the source ports
ropsSource(dops) == dops

\* nl_port_filter; calloc may fail.  The ops of the two calls of pfops are
\* written into the zeroed ops calloc returned.
nl_port_filter ==
    /\ fpc = "idle"
    /\ LET sops == pfops_count(sports, Len(sports))
           dops == pfops_count(dports, Len(dports))
           src == pfops(sports, Len(sports), FALSE, ropsSource(dops), 0)
           dst == pfops(dports, Len(dports), TRUE, 0, Len(src))
           ops == src \o dst
       IN IF Len(sports) = 0 /\ Len(dports) = 0
          THEN filter' = <<>> /\ flen' = 0 /\ op' = 0 /\ fpc' = "done"
          ELSE \/ /\ filter' = ops
                               \o [k \in 1..(sops + dops - Len(ops)) |-> NOP]
                  /\ flen' = (sops + dops) * opsz
                  /\ op' = Len(ops)
                  /\ fpc' = "done"
               \/ filter' = <<>> /\ flen' = -1 /\ op' = 0 /\ fpc' = "nomem"
    /\ UNCHANGED <<un, eq_op_support, sports, dports, pkt, bclen, visited>>

\* the ports of the sockets the kernel runs the filter on
PktPorts == {79, 80, 100, 500}

\* the kernel starts its run of the bytecode of the request on a socket;
\* a request without bytecode selects every socket
bcStart(p) ==
    /\ fpc = "done"
    /\ pkt' = p
    /\ bclen' = flen
    /\ fpc' = "run"
    /\ UNCHANGED <<un, eq_op_support, sports, dports, filter, flen, op, visited>>

\* the kernel's run: one op.  The run ends when len is no longer positive
\* and accepts the socket iff len is 0 then
bcStep ==
    /\ fpc = "run"
    /\ bclen > 0
    /\ LET at == (flen - bclen) \div opsz + 1
           o == filter[at]
           arg == IF at < Len(filter) THEN filter[at + 1].no ELSE 0
           yes == CASE o.code = "NOP" -> TRUE
                    [] o.code = "JMP" -> FALSE
                    [] o.code = "S_EQ" -> pkt.sport = arg
                    [] o.code = "S_GE" -> pkt.sport >= arg
                    [] o.code = "S_LE" -> pkt.sport <= arg
                    [] o.code = "D_EQ" -> pkt.dport = arg
                    [] o.code = "D_GE" -> pkt.dport >= arg
                    [] o.code = "D_LE" -> pkt.dport <= arg
       IN /\ bclen' = bclen - (IF yes THEN o.yes ELSE o.no)
          /\ visited' = visited \cup {at}
    /\ UNCHANGED <<un, eq_op_support, sports, dports, filter, flen, fpc, op, pkt>>

----------------------------------------------------------------------------
(* Writer.Write.  A FlowStats is represented by its ID and its Partial     *)
(* flag; Encode writes a record or fails, and the flush, the metrics and   *)
(* the log of Write are left out.                                          *)

\* the FlowStats of a batch and the batches of at most maxLen of them
FlowStatsRecs == [ID : {"a", "b"}, Partial : BOOLEAN]
StatsBatches(maxLen) == UNION {[1..l -> FlowStatsRecs] : l \in 0..maxLen}

\* the Writer as Open returns it
WriterOpen(partial) ==
    /\ WriterPartial \in partial
    /\ ss = <<>>
    /\ encoded = <<>>
    /\ wret = "nil"

\* the default of main: -writer-partial is false
WriterIdle == WriterOpen({FALSE})

\* Write: the test that guards Encode
encodesAll(s) == TRUE
encodes(s) == WriterPartial \/ ~s.Partial

\* Write(batch).  failAt is the call of Encode that fails, 0 for none: the
\* loop returns the error at once.
Write(batch, failAt) ==
    LET kept == SelectSeq(batch, encodes)
    IN /\ failAt <= Len(kept)
       /\ ss' = batch
       /\ IF Len(batch) = 0 \/ failAt = 0
          THEN encoded' = kept /\ wret' = "nil"
          ELSE encoded' = SubSeq(kept, 1, failAt - 1) /\ wret' = "encode"
       /\ UNCHANGED WriterPartial

----------------------------------------------------------------------------
(* flow.analyze: the correlations and the send throughput.  A float64 is   *)
(* the number it stands for: <<"rat", p, q>> is p/q in lowest terms,        *)
(* <<"sqrt", p, q>> the square root of p/q and <<"nan", 0, 1>> NaN.  A      *)
(* uint64 is the sequence of its limbs of three decimal digits, the least   *)
(* significant first and the most significant not 0; the operations on it   *)
(* wrap at 2^64 where those of Go do.                                       *)

RECURSIVE GCD(_, _)
GCD(a, b) == IF b = 0 THEN a ELSE GCD(b, a % b)

Abs(x) == IF x < 0 THEN -x ELSE x

Rat(p, q) ==
    LET g == GCD(Abs(p), Abs(q))
        sgn == IF q < 0 THEN -1 ELSE 1
    IN <<"rat", sgn * (p \div g), sgn * (q \div g)>>

NaN == <<"nan", 0, 1>>

\* math.Sqrt of p/q with q > 0
Sqrt(p, q) ==
    IF p < 0 THEN NaN
    ELSE LET x == Rat(p, q)
             roots(v) == {k \in 0..v : k * k = v}
         IN IF roots(x[2]) # {} /\ roots(x[3]) # {}
            THEN Rat(CHOOSE k \in roots(x[2]) : TRUE, CHOOSE k \in roots(x[3]) : TRUE)
            ELSE <<"sqrt", x[2], x[3]>>

CORR_UNDEFINED == -2
CORR_INSUFFICIENT_SAMPLES == -3

\* what stat.Correlation can return: NaN (a constant series among others)
\* or a number from -1 to 1, here with a denominator of at most maxDen
Correlations(maxDen) ==
    {NaN} \cup UNION {{Rat(p, q) : p \in -q..q} : q \in 1..maxDen}

isUndefined(f) == f[1] \in {"nan", "inf"}

\* flow.adjustCorrelation, with dlen for len(f.Data); radj is 0 where no
\* branch assigns it
adjustCorrelation(cr, dlen) ==
    LET p == cr[2]
        q == cr[3]
    IN IF AdjustedCC1
       THEN Rat(p * (2 * q * q + dlen * (q * q - p * p)), 2 * q * q * q)
       ELSE IF AdjustedCC2
       THEN IF dlen > 2
            THEN Sqrt((dlen - 2) * q * q - (q * q - p * p) * (dlen - 1),
                      (dlen - 2) * q * q)
            ELSE Rat(0, 1)
       ELSE cr

\* flow.analyze: one of its three correlations, from the result cr of
\* stat.Correlation
correlation(dlen, cr) ==
    IF dlen > 1
    THEN IF isUndefined(cr) THEN Rat(CORR_UNDEFINED, 1)
         ELSE adjustCorrelation(cr, dlen)
    ELSE Rat(CORR_INSUFFICIENT_SAMPLES, 1)

Limb == 1000
Two64 == <<616, 551, 709, 73, 744, 446, 18>>

\* the limbs without most significant zeros
RECURSIVE Norm(_)
Norm(x) == IF x # <<>> /\ x[Len(x)] = 0 THEN Norm(SubSeq(x, 1, Len(x) - 1)) ELSE x

\* -1, 0 or 1 as x is less than, equal to or greater than y
RECURSIVE Cmp(_, _)
Cmp(x, y) ==
    IF Len(x) # Len(y) THEN (IF Len(x) < Len(y) THEN -1 ELSE 1)
    ELSE IF x = <<>> THEN 0
    ELSE IF x[Len(x)] # y[Len(y)] THEN (IF x[Len(x)] < y[Len(y)] THEN -1 ELSE 1)
    ELSE Cmp(SubSeq(x, 1, Len(x) - 1), SubSeq(y, 1, Len(y) - 1))

\* x - y - borrow for x >= y + borrow, limb by limb
RECURSIVE SubLimbs(_, _, _)
SubLimbs(x, y, borrow) ==
    IF x = <<>> THEN <<>>
    ELSE LET d == x[1] - (IF y = <<>> THEN 0 ELSE y[1]) - borrow
         IN <<d % Limb>> \o SubLimbs(Tail(x), IF y = <<>> THEN <<>> ELSE Tail(y),
                                     IF d < 0 THEN 1 ELSE 0)

Sub(x, y) == Norm(SubLimbs(x, y, 0))

\* x * k + carry for a small k
RECURSIVE MulLimbs(_, _, _)
MulLimbs(x, k, carry) ==
    IF x = <<>> THEN (IF carry = 0 THEN <<>> ELSE MulLimbs(<<carry>>, 1, 0))
    ELSE LET m == x[1] * k + carry
         IN <<m % Limb>> \o MulLimbs(Tail(x), k, m \div Limb)

MulSmall(x, k) == Norm(MulLimbs(x, k, 0))

\* the quotient of x by a small d, from the most significant limb down
RECURSIVE DivLimbs(_, _, _)
DivLimbs(x, d, rem) ==
    IF x = <<>> THEN <<>>
    ELSE LET v == rem * Limb + x[Len(x)]
         IN Append(DivLimbs(SubSeq(x, 1, Len(x) - 1), d, v % d), v \div d)

DivSmall(x, d) == Norm(DivLimbs(x, d, 0))

\* what a uint64 keeps of x
RECURSIVE Wrap64(_)
Wrap64(x) == IF Cmp(x, Two64) < 0 THEN x ELSE Wrap64(Sub(x, Two64))

\* 1000000000 * b in uint64
Mul1e9(b) == Wrap64(IF b = <<>> THEN <<>> ELSE <<0, 0, 0>> \o b)

\* x / uint64(d) for a duration d of secs whole seconds, in nanoseconds
DivSeconds(x, secs) == DivSmall(SubSeq(x, 4, Len(x)), secs)

\* bytesPSToMbps: float64(byps) * 8 / 1000000, in millionths of a Mbps
bytesPSToMbps(byps) == MulSmall(byps, 8)

\* the lengths of f.Data, the values of BytesAcked and the wall durations
\* in seconds of the flows analysed
DataLens == {1, 2, 3, 18}
BytesAckeds ==
    {<<>>, <<148>>, <<0, 0, 0, 3>>, <<73, 744, 446, 18>>, <<74, 744, 446, 18>>}
WallSeconds == {1, 3}

\* usToMs: microseconds as float64 milliseconds
usToMs(us) == Rat(us, 1000)

\* a < b on float64 values that are not NaN
Less(a, b) == a[2] * b[3] < b[2] * a[3]

\* flow.rtts and flow.cwnds: new slices of the RTTs in milliseconds and of
\* the congestion windows of f.Data, in the order of f.Data
rtts(f) == [i \in 1..Len(f.Data) |-> usToMs(f.Data[i].RTTus)]
cwnds(f) == [i \in 1..Len(f.Data) |-> f.Data[i].SndCwndBytes]

\* sort.Float64s(d), and the d that sort.Sort(t) and t.transformToSlices(d, w)
\* leave: the values of d in ascending order
RECURSIVE sortFloat64s(_)
sortFloat64s(d) ==
    IF d = <<>> THEN <<>>
    ELSE LET m == CHOOSE i \in 1..Len(d) : \A j \in 1..Len(d) : ~Less(d[j], d[i])
         IN <<d[m]>> \o sortFloat64s(SubSeq(d, 1, m - 1) \o SubSeq(d, m + 1, Len(d)))

\* flow.sevenNumSum(d), as the slice d it was given is after the call: both
\* branches sort d itself, no copy of it
sevenNumSum(d) == sortFloat64s(d)

\* the correlations of a series of two points are -1, 1 or NaN, and those of
\* a single point are not computed
CorrelationsOf(f) ==
    /\ f.n = Len(f.Data)
    /\ f.n = 1 => f.r = <<NaN, NaN, NaN>>
    /\ f.n = 2 => \A i \in 1..3 : f.r[i] \in Correlations(1) \ {Rat(0, 1)}

\* a series whose RTTs and congestion windows rise with every sample
Rising(len) == [i \in 1..len |-> [RTTus |-> 1000 * i, SndCwndBytes |-> i]]

\* the flows that ended, of rising series
EndedFlows(maxDen) ==
    {f \in [n : DataLens,
            Data : {Rising(len) : len \in DataLens},
            r : [1..3 -> Correlations(maxDen)],
            acked : BytesAckeds,
            secs : WallSeconds] : CorrelationsOf(f)}

\* the flows that ended with every series of at most SeriesMaxLen samples
\* of the RTTs and congestion windows below
SeriesMaxLen == 3
SeriesData == [RTTus : {500, 1000, 1500}, SndCwndBytes : {1, 2}]
SeriesFlows ==
    {f \in [n : 1..SeriesMaxLen,
            Data : UNION {[1..len -> SeriesData] : len \in 1..SeriesMaxLen},
            r : [1..3 -> Correlations(1)],
            acked : {<<148>>},
            secs : {1}] : CorrelationsOf(f)}

\* the Analyzer as NewAnalyzer returns it, main refusing both adjustments,
\* and a flow that ended and awaits its analysis
NewAnalyzer(cc1, cc2, fs) ==
    /\ AdjustedCC1 \in cc1 /\ AdjustedCC2 \in cc2
    /\ ~(AdjustedCC1 /\ AdjustedCC2)
    /\ fin \in fs
    /\ fstat = <<>>

\* the defaults of main, and no flow that ended
AnalyzerIdle == NewAnalyzer({FALSE}, {FALSE}, {<<>>})

\* flow.analyze: Samples, the correlations, BytesAcked and
\* SendThroughputMbps of the FlowStats. corrX and corrY are the two series
\* stat.Correlation is called with for CorrRTTCwnd (the slices the debug log
\* prints), <<>> when it is not called: rtts has been through sevenNumSum
flowAnalyze ==
    /\ fstat = <<>>
    /\ fstat' = << [Samples |-> fin.n,
                    corrX |-> IF fin.n > 1 THEN sevenNumSum(rtts(fin)) ELSE <<>>,
                    corrY |-> IF fin.n > 1 THEN cwnds(fin) ELSE <<>>,
                    CorrRTTCwnd |-> correlation(fin.n, fin.r[1]),
                    CorrRetransCwnd |-> correlation(fin.n, fin.r[2]),
                    CorrPacingCwnd |-> correlation(fin.n, fin.r[3]),
                    BytesAcked |-> fin.acked,
                    SendThroughputMbps |->
                        bytesPSToMbps(DivSeconds(Mul1e9(fin.acked), fin.secs))] >>
    /\ UNCHANGED <<AdjustedCC1, AdjustedCC2, fin>>

----------------------------------------------------------------------------
(* Specifications *)

\* the App of a specification of the tracker: constructed, Run not called
AppIdle == NewApp({TRUE}, {5}, {Millisecond}, {0}) /\ NlIdle /\ FilterIdle /\ WriterIdle /\ AnalyzerIdle

\* the tracker of a specification of the App: constructed; Track is
\* represented in the App by the operator Track
TrackerIdle == InitWith({0}, {0}) /\ NlIdle /\ FilterIdle /\ WriterIdle /\ AnalyzerIdle

\* several flows, few data values
Init == InitWith({1, 2}, {0, 2}) /\ AppIdle

Next ==
    \/ TrackBegin(MaxTick) /\ UNCHANGED notTracker
    \/ \E s \in Samples(IDs \ batchIDs, TinyData) : Update(s, MaxBatch) /\ UNCHANGED notTracker
    \/ Cleanup /\ UNCHANGED notTracker
    \/ Analyze /\ UNCHANGED notTracker

Spec == Init /\ [][Next]_vars

\* several flows, with no limit on the flows and with a limit of two
InitAdmit == InitWith({0, 2}, {0}) /\ AppIdle

SpecAdmit == InitAdmit /\ [][Next]_vars

\* one flow, every way two samples can differ
InitData == InitWith({0, 1}, {0, 2}) /\ AppIdle

NextData ==
    \/ TrackBegin(DataMaxTick) /\ UNCHANGED notTracker
    \/ \E s \in Samples(OneID \ batchIDs, RichData) : Update(s, MaxBatch) /\ UNCHANGED notTracker
    \/ Cleanup /\ UNCHANGED notTracker
    \/ Analyze /\ UNCHANGED notTracker

SpecData == InitData /\ [][NextData]_vars

\* one flow over many ticks, the values of scenarios A and D
InitScen == InitWith({0, 1}, {0, 3, 5}) /\ AppIdle

NextScen ==
    \/ TrackBegin(ScenMaxTick) /\ UNCHANGED notTracker
    \/ \E s \in Samples(OneID \ batchIDs, ScenData) : Update(s, MaxBatch) /\ UNCHANGED notTracker
    \/ Cleanup /\ UNCHANGED notTracker
    \/ Analyze /\ UNCHANGED notTracker

SpecScen == InitScen /\ [][NextScen]_vars

\* App.Run in both modes with a sampler that does not fail and a writer
\* that may, and a concurrent App.Stop
InitPipe == TrackerIdle /\ NewApp(BOOLEAN, {5}, {Millisecond}, {0})

NextPipe ==
    \/ RunStart /\ UNCHANGED notApp
    \/ RunHead /\ UNCHANGED notApp
    \/ waitStopped /\ UNCHANGED notApp
    \/ waitTick(PipeMaxCalls) /\ UNCHANGED notApp
    \/ SampleOK(TRUE) /\ UNCHANGED notApp
    \/ RunSend /\ UNCHANGED notApp
    \/ RunEndSerial /\ UNCHANGED notApp
    \/ RunCloseRc /\ UNCHANGED notApp
    \/ RunFinal /\ UNCHANGED notApp
    \/ RunCloseWriter /\ UNCHANGED notApp
    \/ RunCloseDone /\ UNCHANGED notApp
    \/ convertRange /\ UNCHANGED notApp
    \/ convertSend /\ UNCHANGED notApp
    \/ trackRange /\ UNCHANGED notApp
    \/ trackSend /\ UNCHANGED notApp
    \/ analyzeRange /\ UNCHANGED notApp
    \/ analyzeSend /\ UNCHANGED notApp
    \/ write(TRUE) /\ UNCHANGED notApp
    \/ Stop /\ UNCHANGED notApp
    \/ StopDone /\ UNCHANGED notApp
    \/ StopTimeout /\ UNCHANGED notApp

SpecPipe == InitPipe /\ [][NextPipe]_vars

\* the goroutines of a pipelined Run: each is one of these actions
masterSteps(maxCalls) ==
    \/ RunStart \/ RunHead \/ waitStopped \/ waitOnError
    \/ waitTick(maxCalls) \/ SampleOK(TRUE) \/ SampleFails
    \/ RunSend \/ RunEndSerial \/ RunCloseRc \/ RunFinal
    \/ RunCloseWriter \/ RunCloseDone

convert == convertRange \/ convertSend

track == trackRange \/ trackSend

analyzeStage == analyzeRange \/ analyzeSend

stopSelect == StopDone \/ StopTimeout

\* pipelined mode as in SpecPipe, with the scheduling the Go runtime gives:
\* a goroutine that is not blocked eventually takes its next step, a ticker
\* or timer that is waited for eventually fires, and Writer.Write returns.
\* Nothing makes App.Stop be called.
InitFair == TrackerIdle /\ NewApp({FALSE}, {5}, {Millisecond}, {0})

NextFair ==
    \/ RunStart /\ UNCHANGED notApp
    \/ RunHead /\ UNCHANGED notApp
    \/ waitStopped /\ UNCHANGED notApp
    \/ waitTick(FairMaxCalls) /\ UNCHANGED notApp
    \/ SampleOK(TRUE) /\ UNCHANGED notApp
    \/ RunSend /\ UNCHANGED notApp
    \/ RunCloseRc /\ UNCHANGED notApp
    \/ RunFinal /\ UNCHANGED notApp
    \/ RunCloseWriter /\ UNCHANGED notApp
    \/ RunCloseDone /\ UNCHANGED notApp
    \/ convertRange /\ UNCHANGED notApp
    \/ convertSend /\ UNCHANGED notApp
    \/ trackRange /\ UNCHANGED notApp
    \/ trackSend /\ UNCHANGED notApp
    \/ analyzeRange /\ UNCHANGED notApp
    \/ analyzeSend /\ UNCHANGED notApp
    \/ write(TRUE) /\ UNCHANGED notApp
    \/ Stop /\ UNCHANGED notApp
    \/ StopDone /\ UNCHANGED notApp
    \/ StopTimeout /\ UNCHANGED notApp

Fairness ==
    /\ WF_vars(masterSteps(FairMaxCalls) /\ UNCHANGED notApp)
    /\ WF_vars(convert /\ UNCHANGED notApp)
    /\ WF_vars(track /\ UNCHANGED notApp)
    /\ WF_vars(analyzeStage /\ UNCHANGED notApp)
    /\ WF_vars(write(TRUE) /\ UNCHANGED notApp)
    /\ WF_vars(stopSelect /\ UNCHANGED notApp)

SpecFair == InitFair /\ [][NextFair]_vars /\ Fairness

\* App.Run in serial mode with a sampler that may fail; the ErrorDelay
\* values are 1ms and 2^61 ns, whose shifts leave the 64 bits of a Duration
InitErr == TrackerIdle /\ NewApp({TRUE}, {1, 3, 5}, {Millisecond, {61}}, {0, 1})

NextErr ==
    \/ RunStart /\ UNCHANGED notApp
    \/ RunHead /\ UNCHANGED notApp
    \/ waitStopped /\ UNCHANGED notApp
    \/ waitOnError /\ UNCHANGED notApp
    \/ waitTick(ErrMaxCalls) /\ UNCHANGED notApp
    \/ SampleFails /\ UNCHANGED notApp
    \/ SampleOK(TRUE) /\ UNCHANGED notApp
    \/ RunEndSerial /\ UNCHANGED notApp
    \/ RunCloseWriter /\ UNCHANGED notApp
    \/ RunCloseDone /\ UNCHANGED notApp
    \/ Stop /\ UNCHANGED notApp
    \/ StopDone /\ UNCHANGED notApp
    \/ StopTimeout /\ UNCHANGED notApp

SpecErr == InitErr /\ [][NextErr]_vars

\* one call of nl_sample, over every reply of at most NlMaxDgrams datagrams
\* of at most NlMaxLen messages
InitNl == InitWith({0}, {0}) /\ NewApp({TRUE}, {5}, {Millisecond}, {0}) /\ NlIdle /\ FilterIdle /\ WriterIdle /\ AnalyzerIdle

NextNl ==
    \/ nlSend /\ UNCHANGED notNl
    \/ nlRecvFails /\ UNCHANGED notNl
    \/ \E d \in Datagrams(NlMaxLen) : nlRecv(d, NlMaxDgrams) /\ UNCHANGED notNl
    \/ nlNextDatagram /\ UNCHANGED notNl
    \/ nlDone /\ UNCHANGED notNl
    \/ nlError /\ UNCHANGED notNl
    \/ nlParse /\ UNCHANGED notNl

SpecNl == InitNl /\ [][NextNl]_vars

\* the calls of nl_sample of a Sampler, one after the other, until
\* NlMaxResults of them have produced a Result, over the replies made of
\* datagrams of one or two records with a tcp_info, of a record and DONE,
\* of DONE and of ERROR
ClockDatagrams ==
    LET info == [type |-> "DIAG", attrs |-> <<"INFO">>]
        done == [type |-> "DONE"]
    IN {<<info>>, <<info, info>>, <<info, done>>, <<done>>,
        <<[type |-> "ERROR", error |-> -EINVAL, truncated |-> FALSE]>>}

NextClock ==
    \/ nlSend /\ UNCHANGED notNl
    \/ nlRecvFails /\ UNCHANGED notNl
    \/ \E d \in ClockDatagrams : nlRecv(d, NlMaxDgrams) /\ UNCHANGED notNl
    \/ nlNextDatagram /\ UNCHANGED notNl
    \/ nlDone /\ UNCHANGED notNl
    \/ nlError /\ UNCHANGED notNl
    \/ nlParse /\ UNCHANGED notNl
    \/ nlSampleAgain(NlMaxResults) /\ UNCHANGED notNl

SpecClock == InitNl /\ [][NextClock]_vars

\* nl_init, nl_port_filter for every configuration of at most MaxRanges
\* ranges per direction, and the kernel's run of the result on one socket
InitFilter ==
    /\ InitWith({0}, {0}) /\ NewApp({TRUE}, {5}, {Millisecond}, {0}) /\ NlIdle
    /\ FilterInit(PortLists(MaxRanges), PortLists(MaxRanges))
    /\ WriterIdle /\ AnalyzerIdle

NextFilter ==
    \/ \E u \in Unames : nl_init(u) /\ UNCHANGED notFilter
    \/ nl_port_filter /\ UNCHANGED notFilter
    \/ \E p \in [sport : PktPorts, dport : PktPorts] : bcStart(p) /\ UNCHANGED notFilter
    \/ bcStep /\ UNCHANGED notFilter

SpecFilter == InitFilter /\ [][NextFilter]_vars

\* the same with a destination list of LongSingles single ports and
\* LongRanges ranges, whose ops take more bytes than a no can count
LongPorts ==
    [j \in 1..(2 * (LongSingles + LongRanges)) |->
        IF j <= 2 * LongSingles \/ j % 2 = 1 THEN 80 ELSE 443]

InitLong ==
    /\ InitWith({0}, {0}) /\ NewApp({TRUE}, {5}, {Millisecond}, {0}) /\ NlIdle
    /\ FilterInit(PortLists(1), {LongPorts})
    /\ WriterIdle /\ AnalyzerIdle

NextLong ==
    \/ \E u \in Unames : nl_init(u) /\ UNCHANGED notFilter
    \/ nl_port_filter /\ UNCHANGED notFilter
    \/ \E p \in [sport : {79, 80}, dport : {80}] : bcStart(p) /\ UNCHANGED notFilter
    \/ bcStep /\ UNCHANGED notFilter

SpecLong == InitLong /\ [][NextLong]_vars

\* calls of Writer.Write with every batch of at most WriteMaxLen records,
\* with and without a failing Encode
InitWrite ==
    /\ InitWith({0}, {0}) /\ NewApp({TRUE}, {5}, {Millisecond}, {0}) /\ NlIdle
    /\ FilterIdle
    /\ WriterOpen(BOOLEAN) /\ AnalyzerIdle

NextWrite ==
    \E batch \in StatsBatches(WriteMaxLen) : \E failAt \in 0..WriteMaxLen :
        Write(batch, failAt) /\ UNCHANGED notWriter

SpecWrite == InitWrite /\ [][NextWrite]_vars

\* one call of flow.analyze for every configuration of the Analyzer, over
\* flows of the lengths, correlations, byte counts and durations above
InitStat ==
    /\ InitWith({0}, {0}) /\ NewApp({TRUE}, {5}, {Millisecond}, {0}) /\ NlIdle
    /\ FilterIdle /\ WriterIdle
    /\ NewAnalyzer(BOOLEAN, BOOLEAN, EndedFlows(CorrMaxDen))

NextStat == flowAnalyze /\ UNCHANGED notStat

SpecStat == InitStat /\ [][NextStat]_vars

\* calls of nl_open, each failing at one of its steps or at none, and of
\* nl_close on the sessions opened
InitOpen ==
    /\ InitWith({0}, {0}) /\ NewApp({TRUE}, {5}, {Millisecond}, {0}) /\ NlIdle
    /\ FilterIdle /\ WriterIdle /\ AnalyzerIdle

NextOpen ==
    \/ \E fail \in {OpenSteps[i] : i \in DOMAIN OpenSteps} \cup {"none"} :
          nl_open(fail, OpenMaxCalls) /\ UNCHANGED notOpen
    \/ nl_close /\ UNCHANGED notOpen

SpecOpen == InitOpen /\ [][NextOpen]_vars

\* the same over the flows of every short series
InitSeries ==
    /\ InitWith({0}, {0}) /\ NewApp({TRUE}, {5}, {Millisecond}, {0}) /\ NlIdle
    /\ FilterIdle /\ WriterIdle
    /\ NewAnalyzer(BOOLEAN, BOOLEAN, SeriesFlows)

SpecSeries == InitSeries /\ [][NextStat]_vars

----------------------------------------------------------------------------
(* Properties *)

Last(q) == q[Len(q)]

\* the equivalence of two SampleData as the specification defines it
SixEqual(d, d1) ==
    /\ d.RTTus = d1.RTTus
    /\ d.MinRTTus = d1.MinRTTus
    /\ d.SndCwndBytes = d1.SndCwndBytes
    /\ d.PacingRateBps = d1.PacingRateBps
    /\ d.TotalRetransmits = d1.TotalRetransmits
    /\ d.BytesAcked = d1.BytesAcked

\* this step ranges over a sample for id, a flow already in the table
Arrived(id) ==
    /\ pc = "update" /\ n' = n + 1
    /\ id \in DOMAIN flows
    /\ Len(seen'[id]) = Len(seen[id]) + 1

\* id is the key of a flow and this step is the cleanup that ends it
EndsNow(id) ==
    /\ pc = "update" /\ pc' = "analyze"
    /\ id \in DOMAIN flows
    /\ id \notin batchIDs

\* C1: when a sample arrives for a non-filtered flow of the table and equals
\* the flow's last appended sample in the six compared fields, SamplesDeduped
\* grows by exactly one, Data is unchanged and EndTstampNs becomes the
\* timestamp of the arriving sample.
C1_DedupStep ==
    [][\A id \in IDs :
          (Arrived(id) /\ ~flows[id].Filtered
             /\ SixEqual(Last(flows[id].Data), Last(seen'[id])))
          => /\ flows'[id].SamplesDeduped = flows[id].SamplesDeduped + 1
             /\ flows'[id].Data = flows[id].Data
             /\ flows'[id].EndTstampNs = Last(seen'[id]).TstampNs]_vars

\* a flow whose last sample was deduplicated at a later time than its last
\* appended sample
C1_Witness ==
    \E id \in DOMAIN flows :
        /\ ~flows[id].Filtered
        /\ flows[id].SamplesDeduped = 1
        /\ Len(flows[id].Data) = 1
        /\ flows[id].EndTstampNs > Last(flows[id].Data).TstampNs

Observed(id, opt) == \E i \in 1..Len(seen[id]) : HasBit(seen[id][i].Options, opt)

\* C3: every emitted record has each option flag set iff the bit was set in
\* at least one sample received for the flow, appended or deduplicated.
C3_OptionsAggregate ==
    \A st \in stats :
        /\ st.Timestamps <=> Observed(st.ID.ID, TCPI_OPT_TIMESTAMPS)
        /\ st.SACK <=> Observed(st.ID.ID, TCPI_OPT_SACK)
        /\ st.ECN <=> Observed(st.ID.ID, TCPI_OPT_ECN)
        /\ st.ECNSeen <=> Observed(st.ID.ID, TCPI_OPT_ECN_SEEN)

\* C4: the cleanup of a Track call removes from the table every flow whose ID
\* is not in the batch, and no flow it returns was returned before.
C4_EndedOnce ==
    [][(pc = "update" /\ pc' = "analyze")
       => /\ \A id \in IDs :
                EndsNow(id) => /\ id \notin DOMAIN flows'
                               /\ \E v \in deleted' : v.ID = id
          /\ \A v \in ended' : <<v.ID, v.StartTime>> \notin emitted]_vars

\* a Track call has returned a flow, which is no longer in the table, while
\* another flow stays
C4_Witness ==
    /\ pc = "analyze"
    /\ \E v \in ended : v.ID \notin DOMAIN flows
    /\ flows # <<>>

\* C5 as stated: an ended flow's EndTstampNs is the timestamp of its last
\* appended sample.
C5_EndIsLastRetained ==
    \A v \in deleted :
        v.Data # <<>> => v.EndTstampNs = Last(v.Data).TstampNs

\* C5: an ended flow that was not filtered at insertion has the timestamp of
\* the last sample received for it, appended or deduplicated, as EndTstampNs,
\* which is never earlier than that of its last appended sample.
C5_EndIsLastObserved ==
    \A v \in deleted :
        v.Data # <<>> => /\ v.EndTstampNs = Last(seen[v.ID]).TstampNs
                         /\ v.EndTstampNs >= Last(v.Data).TstampNs

\* a flow ended after a deduplicated sample
C5_Witness ==
    \E v \in deleted :
        /\ v.Data # <<>>
        /\ v.SamplesDeduped > 0
        /\ v.EndTstampNs > Last(v.Data).TstampNs

\* C6: no flow that was marked filtered, at insertion or at its end, is ever
\* in a slice returned by Track.
C6_FilteredNeverOutput ==
    /\ emitted \cap marked = {}
    /\ \A v \in ended : ~v.Filtered

\* one cleanup drops a flow filtered at insertion and a flow filtered for
\* MinSamples, and returns a third flow
C6_Witness ==
    /\ \E v \in deleted : v.Filtered /\ v.Data = <<>>
    /\ \E v \in deleted : v.Filtered /\ v.Data # <<>>
    /\ ended # {}

\* C7: with MaxFlows > 0 at most MaxFlows flows of the table are
\* non-filtered, and a filtered flow stays filtered while it is in the table.
C7_AtMostMaxFlows ==
    /\ [](MaxFlows > 0 =>
            Cardinality({ id \in DOMAIN flows : ~flows[id].Filtered }) <= MaxFlows)
    /\ [][\A id \in IDs :
            (id \in DOMAIN flows /\ flows[id].Filtered /\ id \in DOMAIN flows')
            => flows'[id].Filtered]_vars

\* a flow filtered at insertion is sampled again in a tick in which the rest
\* of the table is below MaxFlows
C7_Witness ==
    \E id \in DOMAIN flows :
        /\ flows[id].Filtered
        /\ flows[id].Sampled
        /\ Len(seen[id]) = 3
        /\ Cardinality(DOMAIN flows \ {id}) < MaxFlows

\* C8: a flow has PreExisting iff it was inserted by the first Track call
\* (the call with t0 = 1), and every ended flow and record has Partial equal
\* to that.
C8_PreExisting ==
    /\ \A id \in DOMAIN flows : flows[id].PreExisting <=> flows[id].StartTime = 1
    /\ \A v \in deleted : /\ v.Partial = v.PreExisting
                          /\ v.Partial <=> v.StartTime = 1
    /\ \A st \in stats : st.Partial <=> st.StartTime = 1

\* one Analyze call emits a flow of the first tick and a flow of a later tick
C8_Witness ==
    /\ \E st \in stats : st.Partial
    /\ \E st \in stats : ~st.Partial

\* C9: an ended flow that is not filtered is returned iff MinSamples = 0 or
\* it has at least MinSamples appended samples; either way it leaves the
\* table.
C9_MinSamples ==
    [][\A id \in IDs :
          (EndsNow(id) /\ ~flows[id].Filtered)
          => /\ (\E v \in ended' : v.ID = id /\ v.Data = flows[id].Data)
                <=> (MinSamples = 0 \/ Len(flows[id].Data) >= MinSamples)
             /\ id \notin DOMAIN flows']_vars

\* with MinSamples = 5 a flow that ends with exactly 5 samples is returned
C9_Witness ==
    /\ MinSamples = 5
    /\ \E v \in ended : Len(v.Data) = 5

\* scenario A: the flow of id was inserted three ticks ago, received one
\* sample in each of three consecutive ticks with RTT 10,10,30 and cwnd
\* 14480,14480,28960, was absent from the tick just processed, and the
\* analyzer has run
ScenarioA(id) ==
    /\ pc = "idle"
    /\ id \in DOMAIN seen
    /\ \E v \in deleted : v.ID = id
    /\ Len(seen[id]) = 3
    /\ \A i \in 1..3 : seen[id][i].TstampNs = tstamp - 4 + i
    /\ seen[id][1].RTTus = 10 /\ seen[id][1].SndCwndBytes = 14480
    /\ seen[id][2].RTTus = 10 /\ seen[id][2].SndCwndBytes = 14480
    /\ seen[id][3].RTTus = 30 /\ seen[id][3].SndCwndBytes = 28960

\* C10 as stated: scenario A yields exactly one record, with samples=3,
\* samplesDeduped=0 and partial=false.
C10_ScenarioA ==
    \A id \in OneID :
        ScenarioA(id)
        => /\ Cardinality(stats) = 1
           /\ \A st \in stats :
                st.Samples = 3 /\ st.SamplesDeduped = 0 /\ ~st.Partial

\* C10: scenario A yields exactly one record, with samples=3,
\* samplesDeduped=0 and partial=false, provided the first of the three
\* ticks is not the tracker's first Track call, the second sample differs
\* from the first in one of the six compared fields, and MinSamples <= 3.
C10_ScenarioAAmended ==
    \A id \in OneID :
        (/\ ScenarioA(id)
         /\ seen[id][1].TstampNs > 1
         /\ ~SixEqual(seen[id][1], seen[id][2])
         /\ MinSamples <= 3)
        => /\ Cardinality(stats) = 1
           /\ \A st \in stats :
                st.Samples = 3 /\ st.SamplesDeduped = 0 /\ ~st.Partial

\* scenario A as the claim describes its outcome
C10_Witness ==
    \E id \in OneID :
        /\ ScenarioA(id)
        /\ \E st \in stats :
             st.Samples = 3 /\ st.SamplesDeduped = 0 /\ ~st.Partial

\* C11 (Scenario C): with MaxFlows = 2 and a table that was empty when the
\* Track call began (every flow in it was inserted by this call), the first
\* two new flows of the batch are admitted and the one inserted third in the
\* batch's iteration order is marked filtered; no filtered flow is ever in a
\* Track output, also once all three have ended.
C11_ScenarioC ==
    /\ [][\A id \in IDs :
            ( /\ pc = "update" /\ n' = n + 1
              /\ MaxFlows = 2
              /\ \A j \in DOMAIN flows : flows[j].StartTime = now
              /\ id \notin DOMAIN flows /\ id \in DOMAIN flows' )
            => /\ flows'[id].Filtered <=> (n = 2)
               /\ n < 2 => Len(flows'[id].Data) = 1
               /\ n = 2 => /\ flows'[id].Data = <<>>
                           /\ <<id, now>> \in marked']_vars
    /\ [](\A v \in ended : <<v.ID, v.StartTime>> \notin marked)
    /\ [](emitted \cap marked = {})

\* All three flows of such a batch have ended in one Track call: the two
\* admitted ones are returned, the filtered third is deleted and held back.
C11_Witness ==
    /\ MaxFlows = 2 /\ MinSamples = 0 /\ pc = "analyze"
    /\ Cardinality(deleted) = 3
    /\ \A v, w \in deleted : v.StartTime = w.StartTime
    /\ Cardinality({ v \in deleted : v.Filtered }) = 1
    /\ Cardinality(ended) = 2
    /\ \E v \in deleted : v.Filtered /\ <<v.ID, v.StartTime>> \in marked \ emitted

----------------------------------------------------------------------------
(* Properties of the App *)

\* the batch Result.Samples makes of the i-th Result the sampler returned
Batch(i) == ResultSamples(sampled[i])

\* what Analyze(Track(.)) returns for the k-th batch when the tracker has
\* been given the batches of the first k Results, in the sampler's order
StatsOf(k) == <<"FlowStats", [i \in 1..k |-> Batch(i)]>>

\* C12: serial and pipelined mode give Track the same sequence of batches
\* and Write the same sequence of FlowStats batches for the same sequence of
\* Results: in either mode the k-th Track call gets the batch of the k-th
\* Result, the k-th Write call gets the statistics of the first k batches in
\* that order, and when Run has returned every Result has been tracked and
\* written unless Write returned an error, which ends the writes in both.
C12_SameSequences ==
    /\ Len(tracked) <= Len(sampled)
    /\ \A k \in 1..Len(tracked) : tracked[k] = Batch(k)
    /\ Len(written) <= Len(tracked)
    /\ \A k \in 1..Len(written) : written[k] = StatsOf(k)
    /\ (mpc = "done" /\ ~werr)
          => Len(tracked) = Len(sampled) /\ Len(written) = Len(sampled)
    /\ (mpc = "done" /\ werr /\ Serial) => Len(written) = Len(sampled)

\* a pipelined run has returned after three Results went through all stages
C12_Witness ==
    /\ ~Serial /\ mpc = "done" /\ ~werr
    /\ Len(sampled) = 3 /\ Len(written) = 3

\* a step of a goroutine of Run: the master or a stage
running == masterSteps(PipeMaxCalls) \/ convert \/ track \/ analyzeStage \/ write(TRUE)

\* every stage has left its range loop with its input drained and has
\* closed its output channel
Drained ==
    /\ \A st \in Stages : stage[st].pc = "exit"
    /\ rc = <<>> /\ sc = <<>> /\ fc = <<>> /\ fsc = <<>>
    /\ {"sc", "fc", "fsc", "errc"} \subseteq closed

C14_WriterErrorEndsRun ==
    (~Serial /\ werr) =>
        /\ errc = <<"writer">> \/ err = "writer"
        /\ \/ mpc = "done" /\ err # "nil"
           \/ ENABLED running

\* C15: the master aborts Run with an error exactly when MaxErrors
\* consecutive Sample calls have failed: the counter is the number of Sample
\* calls that failed since the last success (a success resets it to zero),
\* and the head of the loop aborts if and only if that number has reached
\* MaxErrors, so failures that are not consecutive never add up to an abort.
C15_AbortAfterMaxErrors ==
    /\ [](errs = fails)
    /\ [](err = "aborted" => fails = MaxErrors /\ mpc \in {"shutdown", "closeWriter", "closeDone", "done"})
    /\ [][(mpc = "head" /\ mpc' # "head")
            => ((err' = "aborted") <=> (fails >= MaxErrors))]_vars
    /\ [][Len(sampled') > Len(sampled) => errs' = 0]_vars

\* Run has aborted after failures 2, 3 and 4 of four, the first of which was
\* followed by a success
C15_Witness ==
    /\ err = "aborted" /\ MaxErrors = 3
    /\ calls = 5 /\ Len(sampled) = 1

\* the one bits of d * 2^k
Product(d, k) == { i + k : i \in d }

\* C16: after the n-th consecutive failure (1 <= n < MaxErrors) the delay
\* before the next Sample attempt is ErrorDelay * 2^(n-1): when the master
\* is about to call Sample again, that backoff is all it has waited.
C16_BackoffDelay ==
    (mpc = "sample" /\ fails >= 1 /\ fails < MaxErrors)
        => waits = << <<"ErrorDelay", Product(ErrorDelay, fails - 1)>> >>

\* C16 amended: the master is about to call Sample after n >= 1 consecutive
\* failures only if n < MaxErrors, and it has then waited the backoff
\* ErrorDelay * 2^(n-1) truncated to the 64 bits of a Duration, followed by
\* one tick of the sampling Interval.
C16_BackoffThenInterval ==
    (mpc = "sample" /\ fails >= 1)
        => /\ fails < MaxErrors
           /\ waits = << <<"ErrorDelay",
                           Product(ErrorDelay, fails - 1) \cap (0 .. DurationBits - 1)>>,
                         <<"Interval">> >>

\* the third consecutive failure with ErrorDelay = 1ms: the backoff was 4ms
C16_Witness ==
    /\ mpc = "sample" /\ fails = 3 /\ MaxErrors = 5 /\ ErrorDelay = Millisecond
    /\ waits = << <<"ErrorDelay", {8, 11, 16, 18, 19, 20, 21}>>, <<"Interval">> >>

\* C18: the session is nil until the first Sample; a Sample that succeeds
\* leaves a session open, the one it found if there was one and else a newly
\* opened one; a Sample that fails, in nl_open or in the exchange, leaves the
\* session nil, and so does Close when Run returns; so the Sample after a
\* failure opens a fresh session.
C18_SessionLifecycle ==
    /\ [](calls = 0 => session = 0)
    /\ [][calls' = calls + 1 =>
            IF fails' = 0
              THEN IF session = 0
                     THEN session' = opens + 1 /\ opens' = opens + 1
                     ELSE session' = session /\ opens' = opens
              ELSE session' = 0]_vars
    /\ [](mpc = "done" => session = 0)

\* two Samples used the first session, the third failed, and the fourth
\* opened the second session
C18_Witness ==
    /\ session = 2 /\ opens = 2 /\ calls = 4 /\ Len(sampled) = 3

\* C17: after a stop signal Run returns when the final stage has drained or
\* once StopTimeout has elapsed, whichever comes first.  As a property of
\* finite runs: when the timeout of Stop has expired, Run has returned or
\* the goroutine that runs it can take its next step.
C17_RunReturnsByTimeout ==
    (spc = "returned" /\ stopErr = "timeout")
        => (mpc = "done" \/ ENABLED masterSteps(PipeMaxCalls))

\* C17 amended: StopTimeout bounds Stop and not Run.  The expiry of the
\* timeout changes nothing of Run and its stages; a pipelined Run returns
\* only when the write stage has ended; Stop returns after it has closed
\* stop, with nil only if Run has returned, else with the timeout error.
C17_TimeoutBoundsStopOnly ==
    /\ [][(spc' = "returned" /\ stopErr' = "timeout" /\ spc # "returned")
            => UNCHANGED <<mpc, err, r, rc, sc, fc, fsc, errc, closed, stage>>]_vars
    /\ []((mpc = "done" /\ ~Serial) => stage["write"].pc = "exit")
    /\ [](spc = "returned" =>
            /\ "stop" \in closed
            /\ stopErr = "nil" => mpc = "done" /\ "done" \in closed)
    /\ [](stopErr = "timeout" => spc = "returned")

\* Stop has returned the timeout error while Run, having seen the stop and
\* closed rc, still waits for stages that have batches to process
C17_Witness ==
    /\ spc = "returned" /\ stopErr = "timeout"
    /\ mpc = "final" /\ ~werr /\ errc = <<>> /\ "errc" \notin closed
    /\ fsc # <<>>

\* C20: RecycleResult and RecycleSamples never block: they let the stage go
\* on whatever the recycling queue holds, a full queue is left as it is (the
\* buffer is dropped) and no queue ever holds more than its capacity; Sample
\* and Result.Samples never block on an empty recycling queue: they go on,
\* and leave it empty, when there is nothing to reuse.
C20_RecyclingNeverBlocks ==
    /\ [](resultsCh \in 0..RecycleCap /\ samplesCh \in 0..RecycleCap)
    /\ []((stage["convert"].pc = "send" /\ Len(sc) < ScCap) => ENABLED convertSend)
    /\ []((stage["track"].pc = "send" /\ Len(fc) < FcCap) => ENABLED trackSend)
    /\ [][(stage["convert"].pc = "send" /\ stage'["convert"].pc = "range")
            => resultsCh' = IF resultsCh = RecycleCap THEN RecycleCap
                                                      ELSE resultsCh + 1]_vars
    /\ [][(stage["track"].pc = "send" /\ stage'["track"].pc = "range")
            => samplesCh' = IF samplesCh = RecycleCap THEN RecycleCap
                                                      ELSE samplesCh + 1]_vars
    /\ [](mpc = "sample" => ENABLED SampleOK(TRUE))
    /\ []((stage["convert"].pc = "range" /\ rc # <<>>) => ENABLED convertRange)
    /\ [][(calls' = calls + 1 /\ ~Serial /\ resultsCh = 0) => resultsCh' = 0]_vars
    /\ [][(stage["convert"].pc = "range" /\ stage'["convert"].pc = "send"
             /\ samplesCh = 0) => samplesCh' = 0]_vars

\* a Result was recycled into a full queue and dropped, and the queue of
\* sample slices is full as well
C20_Witness ==
    /\ dropped /\ resultsCh = RecycleCap /\ samplesCh = RecycleCap
    /\ stage["track"].pc = "send"

----------------------------------------------------------------------------
(* Properties of nl_sample *)

\* C19: a DONE message ends the loop with success and stats.samples equal to
\* the number of messages with a tcp_info attribute received before it; an
\* ERROR message ends it with failure and errno the negated code of the
\* kernel, or ENODATA when the message is truncated; no message after the
\* DONE or ERROR of a datagram is parsed.
C19_ReplyLoop ==
    /\ [][(nlpc = "walk" /\ h # <<>> /\ Head(h).type = "DONE")
            => /\ nlpc' = "ret" /\ nlret' = 0
               /\ nlstats'.samples = records
               /\ nlstats'.msgs = msgs]_vars
    /\ [][(nlpc = "walk" /\ h # <<>> /\ Head(h).type = "ERROR")
            => /\ nlpc' = "ret" /\ nlret' = -1
               /\ errno' = IF Head(h).truncated THEN ENODATA
                                                ELSE 0 - Head(h).error]_vars
    /\ [](nlpc = "ret" => parsed <= parsable)
    /\ []((nlpc = "ret" /\ h # <<>>) => parsed = parsable)
    /\ [][nlpc = "ret" => UNCHANGED nlVars]_vars

\* the first datagram held two records, the second a DONE followed by one
\* more record: nl_sample returned 0 with the two records counted and the
\* third not parsed
C19_Witness ==
    /\ nlpc = "ret" /\ nlret = 0 /\ msgs = 2
    /\ nlstats.samples = 2 /\ parsed = 2
    /\ Len(h) = 2 /\ h[2].type = "DIAG" /\ h[2].attrs = <<"INFO">>

----------------------------------------------------------------------------
(* The port filter *)

\* nl_port_filter has returned a program
Emitted == fpc \in {"done", "run"} /\ filter # <<>>

\* the instructions of the program: the ops that are not the port operand
\* of the comparison before them
Instr == {k \in 1..Len(filter) : filter[k].code # "NOP"}

\* the op an offset of op k lands on; Len(filter) + 1 is the end of the
\* program (accept), Len(filter) + 2 the op after it (reject)
Target(k, off) == k + off \div opsz
End == Len(filter) + 1
Reject == Len(filter) + 2

InRange(port, ports) ==
    \E i \in 0..(Len(ports) - 1) :
        i % 2 = 0 /\ ports[i + 1] <= port /\ port <= ports[i + 2]

SrcOK == Len(sports) = 0 \/ InRange(pkt.sport, sports)
DstOK == Len(dports) = 0 \/ InRange(pkt.dport, dports)

\* the kernel's run of the filter on pkt has ended
RunEnded == fpc = "run" /\ bclen <= 0

\* the ops of the destination ranges
DstBlock == {k \in 1..Len(filter) : k > pfops_count(sports, Len(sports))}

\* C22: the kernel's run executes instructions only, and when it has ended
\* it has accepted the socket (len is 0) iff the source port passes the
\* source ranges and the destination port the destination ranges; when the
\* source port does not pass, no op of the destination ranges was executed.
C22_AcceptIffInRanges ==
    /\ fpc = "run" => visited \subseteq Instr
    /\ RunEnded =>
           /\ (bclen = 0) <=> (SrcOK /\ DstOK)
           /\ ~SrcOK => visited \cap DstBlock = {}

\* C23: eq_op_support is set iff uname succeeded, its release starts with
\* three numbers and they are at least 4.16; an emitted program has an
\* equality op iff eq_op_support is set and a configured range is a single
\* port; for sports 80,80,443,443 and no dports the program is S_GE 80,
\* S_LE 80, JMP, S_GE 443, S_LE 443 without equality support and S_EQ 80,
\* JMP, S_EQ 443 with it; and the ops written are exactly the
\* pfops_count(sports) + pfops_count(dports) ops of flen.
Singles(ports) ==
    \E i \in 0..(Len(ports) - 1) : i % 2 = 0 /\ ports[i + 1] = ports[i + 2]

\* the instructions of the program in order, each with its port operand
Listing ==
    LET code(k) == filter[k].code
        RECURSIVE from(_)
        from(k) ==
            IF k > Len(filter) THEN <<>>
            ELSE IF code(k) = "JMP" THEN <<<<"JMP">>>> \o from(k + 1)
            ELSE <<<<code(k), filter[k + 1].no>>>> \o from(k + 2)
    IN from(1)

C23_EqualityGate ==
    /\ fpc # "boot" =>
           (eq_op_support <=>
               /\ un.ok /\ Len(un.release) >= 3
               /\ \/ un.release[1] > 4
                  \/ un.release[1] = 4 /\ un.release[2] >= 16)
    /\ Emitted =>
           /\ (\E k \in Instr : filter[k].code \in {"S_EQ", "D_EQ"})
                  <=> (eq_op_support /\ (Singles(sports) \/ Singles(dports)))
           /\ flen = (pfops_count(sports, Len(sports))
                      + pfops_count(dports, Len(dports))) * opsz
           /\ flen = Len(filter) * opsz
           /\ op = Len(filter)
           /\ (sports = <<80, 80, 443, 443>> /\ dports = <<>>) =>
                  Listing = IF eq_op_support
                            THEN << <<"S_EQ", 80>>, <<"JMP">>, <<"S_EQ", 443>> >>
                            ELSE << <<"S_GE", 80>>, <<"S_LE", 80>>, <<"JMP">>,
                                    <<"S_GE", 443>>, <<"S_LE", 443>> >>

\* Scenario F on a 4.9 kernel: the program of the ge and le pairs has been
\* emitted
C23_Witness ==
    /\ Emitted /\ sports = <<80, 80, 443, 443>> /\ dports = <<>>
    /\ un = [ok |-> TRUE, release |-> <<4, 9, 0>>]
    /\ Len(filter) = 9

----------------------------------------------------------------------------
(* The writer *)

\* C24 as stated: after a call of Write the records encoded are exactly the
\* records of the batch that are not partial, or all of them when the
\* Partial option is set, and an empty batch writes nothing and returns no
\* error.
C24_EncodesIffNotDropped ==
    /\ encoded = SelectSeq(ss, LAMBDA s : WriterPartial \/ ~s.Partial)
    /\ ss = <<>> => wret = "nil"

\* C24 amended: when Write returns no error the records encoded are exactly
\* those; when Encode fails Write returns its error and has encoded only
\* the records of that kind before the failing one; a partial record is
\* never encoded when the option is unset; an empty batch writes nothing
\* and returns no error.
C24_EncodesUpToError ==
    LET kept == SelectSeq(ss, LAMBDA s : WriterPartial \/ ~s.Partial)
    IN /\ wret = "nil" => encoded = kept
       /\ wret # "nil" =>
              /\ Len(encoded) < Len(kept)
              /\ encoded = SubSeq(kept, 1, Len(encoded))
       /\ ~WriterPartial => \A i \in 1..Len(encoded) : ~encoded[i].Partial
       /\ ss = <<>> => encoded = <<>> /\ wret = "nil"

\* a batch with a partial record between two others was written without
\* the option and without error: the partial record was dropped
C24_Witness ==
    /\ ~WriterPartial /\ wret = "nil"
    /\ Len(ss) = 3 /\ ~ss[1].Partial /\ ss[2].Partial /\ ~ss[3].Partial
    /\ encoded = <<ss[1], ss[3]>>

\* the three correlations of the FlowStats returned
Corrs == {fstat[1].CorrRTTCwnd, fstat[1].CorrRetransCwnd, fstat[1].CorrPacingCwnd}

\* C25: a flow with fewer than 2 appended samples has all three correlations
\* equal to the sentinel -3, and with 2 or more samples none of them is -3
C25_InsufficientIffFewSamples ==
    fstat # <<>> =>
        IF fstat[1].Samples < 2
        THEN Corrs = {Rat(CORR_INSUFFICIENT_SAMPLES, 1)}
        ELSE Rat(CORR_INSUFFICIENT_SAMPLES, 1) \notin Corrs

\* C26: adjustCorrelation returns r unchanged where no adjustment formula
\* applies: with neither adjustment configured, and with the second
\* adjustment configured for a flow of n <= 2 samples
C26_UnadjustedIsR ==
    (/\ fstat # <<>> /\ fin.n > 1
     /\ ~AdjustedCC1 /\ (AdjustedCC2 => fin.n <= 2)) =>
        /\ ~isUndefined(fin.r[1]) => fstat[1].CorrRTTCwnd = fin.r[1]
        /\ ~isUndefined(fin.r[2]) => fstat[1].CorrRetransCwnd = fin.r[2]
        /\ ~isUndefined(fin.r[3]) => fstat[1].CorrPacingCwnd = fin.r[3]

\* C27: SendThroughputMbps is BytesAcked * 8 / (wall duration in seconds) /
\* 1e6 for every BytesAcked and every positive wall duration: in bits, the
\* throughput times the duration is eight times the bytes acknowledged
C27_ThroughputExact ==
    fstat # <<>> =>
        MulSmall(fstat[1].SendThroughputMbps, fin.secs) = MulSmall(fin.acked, 8)

\* the numbers of the Results whose batches are in flight, from the batches
\* Track was given back to the Result the master has in hand: a Result is
\* numbered by the Sample call that returned it
numbers(q) == [i \in 1..Len(q) |-> q[i][2]]
InFlight ==
    numbers(tracked) \o numbers(sc)
        \o (IF stage["convert"].pc = "send" THEN numbers(<<stage["convert"].x>>) ELSE <<>>)
        \o numbers(rc)
        \o (IF r # <<>> THEN numbers(<<r>>) ELSE <<>>)

OneStampPerDatagram ==
    /\ \A i, j \in 1..Len(samples) :
          samples[i].dgram = samples[j].dgram
              => samples[i].tstamp_ns = samples[j].tstamp_ns
    /\ \A i \in 1..Len(samples) :
          (nlpc = "walk" /\ samples[i].dgram = msgs) => samples[i].tstamp_ns = ts
    /\ nlpc = "walk" => ts = clock

\* C29 as stated: all records parsed from one received datagram carry the
\* same timestamp, taken once right after that receive returns, and every
\* sample of a Result has a timestamp strictly less than every sample of a
\* Result produced by a later call
C29_StrictlyLaterStamps ==
    /\ OneStampPerDatagram
    /\ \A a, b \in 1..Len(results) :
          a < b => \A i \in 1..Len(results[a]), j \in 1..Len(results[b]) :
                      results[a][i] < results[b][j]

\* C29, amended: all records parsed from one received datagram carry the
\* same timestamp, taken once right after that receive returns, and no
\* sample of a Result has a timestamp greater than a sample of a Result
\* produced by a later call
C29_NoEarlierStamps ==
    /\ OneStampPerDatagram
    /\ \A a, b \in 1..Len(results) :
          a < b => \A i \in 1..Len(results[a]), j \in 1..Len(results[b]) :
                      results[a][i] <= results[b][j]

\* two calls have produced Results, the first of two datagrams with
\* different timestamps and the second with a sample of a later timestamp
C29_Witness ==
    /\ Len(results) = 2 /\ nlpc = "ret"
    /\ Len(results[1]) = 3 /\ results[1][1] < results[1][3]
    /\ results[2] # <<>> /\ results[1][3] < results[2][1]

\* the places of a kind of buffer, recycling queue first, hold different
\* buffers
Unshared(q, held) ==
    \A i, j \in 1..Len(q \o held) : i # j => (q \o held)[i] # (q \o held)[j]

\* the Results and the batches the goroutines of the pipeline hold
ResultsHeld ==
    (IF r # <<>> THEN 1 ELSE 0) + Len(rc)
        + (IF stage["convert"].pc = "send" THEN 1 ELSE 0)
SamplesHeld ==
    (IF stage["convert"].pc = "send" THEN 1 ELSE 0) + Len(sc)
        + (IF stage["track"].pc = "send" THEN 1 ELSE 0)

\* C30: a Result or sample buffer placed in a recycling queue is not read
\* or written by a stage until it is handed out again (the Result is
\* recycled after Samples has copied it, the slice after Track has copied
\* it), and no buffer is held by two items of the pipeline or by an item
\* and a recycling queue at once
C30_RecycledBuffersUnused ==
    /\ ~bufs.stale
    /\ Unshared(bufs.resultsCh, bufs.result)
    /\ Unshared(bufs.samplesCh, bufs.samples)
    /\ Len(bufs.resultsCh) = resultsCh /\ Len(bufs.samplesCh) = samplesCh
    /\ Len(bufs.result) = ResultsHeld /\ Len(bufs.samples) = SamplesHeld

\* a pipelined run in which both recycling queues hold a buffer while the
\* master and convert hold a Result each and convert and track a slice
\* each, after buffers were handed out again
C30_Witness ==
    /\ ~Serial /\ Len(sampled) >= 4
    /\ bufs.resultsCh # <<>> /\ bufs.samplesCh # <<>>
    /\ r # <<>> /\ stage["convert"].pc = "send" /\ stage["track"].pc = "send"
    /\ Len(bufs.result) = 2 /\ Len(bufs.samples) >= 2

\* C31: for a flow of two samples or more the RTT series given to the
\* RTT-to-cwnd correlation is in the order of the samples, the i-th RTT
\* paired with the cwnd of the i-th retained sample, the seven-number
\* summary computed before it notwithstanding
C31_CorrelationPairsSamples ==
    (fstat # <<>> /\ fin.n >= 2) =>
        \A i \in 1..fin.n :
            /\ fstat[1].corrX[i] = usToMs(fin.Data[i].RTTus)
            /\ fstat[1].corrY[i] = fin.Data[i].SndCwndBytes

\* Run has returned from its body: its deferred calls are running or over
Returning == mpc \in {"closeWriter", "closeDone", "done"}

\* the batches Track was given that Write has not been given yet: held by
\* track, queued in fc, held by analyze or queued in fsc
Unwritten ==
    (IF stage["track"].pc = "send" THEN 1 ELSE 0) + Len(fc)
        + (IF stage["analyze"].pc = "send" THEN 1 ELSE 0) + Len(fsc)

\* C32: in pipelined mode, while Writer.Write has returned no error, every
\* Result Sample returned is in the pipeline once or has been given to Track
\* once, every batch tracked is in the pipeline once or its FlowStats have
\* been given to Write, and when Run returns and when the writer is closed
\* every Result has been tracked and the FlowStats of each written
C32_ShutdownLosesNothing ==
    (~Serial /\ ~werr) =>
        /\ Len(InFlight) = Len(sampled)
        /\ \A k \in 1..Len(tracked) : tracked[k] = ResultSamples(sampled[k])
        /\ Len(written) + Unwritten = Len(tracked)
        /\ \A k \in 1..Len(written) :
              written[k] = AnalyzeFlows(<<"Flows", SubSeq(tracked, 1, k)>>)
        /\ (Returning \/ "writer" \in closed) =>
              /\ Len(tracked) = Len(sampled) /\ Len(written) = Len(sampled)
              /\ stage["write"].pc = "exit"

\* a pipelined run is closing: the writer is closed, done is not yet, and
\* the three Results sampled have all been written
C32_Witness ==
    /\ ~Serial /\ ~werr /\ "writer" \in closed /\ "done" \notin closed
    /\ Len(sampled) = 3 /\ Len(written) = 3

\* App.Stop has returned nil
StopNil == spc = "returned" /\ stopErr = "nil"

\* the order of the shutdown after the pipeline: the sampler is closed when
\* Run returns from its body, the writer after it and done after the writer
ShutdownOrder ==
    /\ Returning => session = 0
    /\ "writer" \in closed => mpc \in {"closeDone", "done"}
    /\ "done" \in closed <=> mpc = "done"

\* the writer is closed only when nothing can call Writer.Write any more:
\* the write stage has left its loop and the master is past processSerial
WriterClosedUnused ==
    /\ "writer" \in closed => (~Serial => stage["write"].pc = "exit")
    /\ [][written' # written => "writer" \notin closed']_vars

\* C38 as stated: Stop returns nil only after Run has finished its shutdown
\* in the order pipeline drained (pipelined mode), sampler closed, writer
\* closed, done closed
C38_StopAfterDrainedShutdown ==
    /\ StopNil => mpc = "done"
    /\ ShutdownOrder
    /\ (Returning /\ ~Serial) => Drained

\* C38, amended: the pipeline is drained before the sampler is closed if
\* Writer.Write returned no error; after a write error the write stage has
\* left its loop but the other stages need not have drained.  The rest as
\* stated, and the writer is never closed while Writer.Write can be called.
C38_StopAfterOrderedShutdown ==
    /\ [](StopNil => mpc = "done")
    /\ []ShutdownOrder
    /\ []((Returning /\ ~Serial) =>
            /\ stage["write"].pc = "exit" /\ "errc" \in closed
            /\ ~werr => Drained)
    /\ WriterClosedUnused

\* Stop has returned nil after a pipelined run whose Write failed: Run has
\* closed sampler, writer and done while a stage still holds a batch
C38_Witness ==
    /\ StopNil /\ ~Serial /\ werr /\ ~Drained
    /\ {"writer", "done"} \subseteq closed /\ session = 0
    /\ \E st \in Stages : stage[st].pc = "send"

\* C33: every flow Track returns is not filtered and has at least one
\* appended sample, the first being the first sample received for it, and
\* so has every flow of the table that is not filtered and every record
C33_ReturnedHaveSamples ==
    /\ \A v \in ended : /\ ~v.Filtered
                        /\ Len(v.Data) >= 1
                        /\ v.Data[1] = seen[v.ID][1]
    /\ \A id \in DOMAIN flows : ~flows[id].Filtered => Len(flows[id].Data) >= 1
    /\ \A st \in stats : st.Samples >= 1

\* a cleanup without MinSamples returns a flow of a single sample and drops
\* a flow that was filtered at insertion and has none
C33_Witness ==
    /\ pc = "analyze" /\ MinSamples = 0
    /\ \E v \in ended : Len(v.Data) = 1 /\ v.SamplesDeduped = 0
    /\ \E v \in deleted : v.Filtered /\ v.Data = <<>>

\* C34: for every flow that is not filtered, len(Data) + SamplesDeduped is
\* the number of samples received for its ID since it was inserted, and a
\* sample received for it is appended or counted as de-duplicated, one of
\* the two
C34_EverySampleCounted ==
    /\ [](\A id \in DOMAIN flows :
            ~flows[id].Filtered =>
                Len(flows[id].Data) + flows[id].SamplesDeduped = Len(seen[id]))
    /\ [](\A v \in ended : Len(v.Data) + v.SamplesDeduped = Len(seen[v.ID]))
    /\ [][\A id \in IDs :
            (Arrived(id) /\ ~flows[id].Filtered) =>
                \/ /\ flows'[id].Data = Append(flows[id].Data, Last(seen'[id]))
                   /\ flows'[id].SamplesDeduped = flows[id].SamplesDeduped
                \/ /\ flows'[id].Data = flows[id].Data
                   /\ flows'[id].SamplesDeduped = flows[id].SamplesDeduped + 1]_vars

\* a flow of the table has had three samples: two appended, one not
C34_Witness ==
    \E id \in DOMAIN flows :
        /\ ~flows[id].Filtered /\ Len(seen[id]) = 3
        /\ Len(flows[id].Data) = 2 /\ flows[id].SamplesDeduped = 1

\* C35: a new flow is not filtered iff MaxFlows is 0 or the table as it is
\* at the insertion, the filtered flows and the flows the cleanup of this
\* call will end included, has fewer than MaxFlows flows
C35_AdmissionByTableSize ==
    [][\A id \in IDs :
          (pc = "update" /\ id \notin DOMAIN flows /\ id \in DOMAIN flows') =>
              (~flows'[id].Filtered <=>
                  (MaxFlows = 0 \/ Cardinality(DOMAIN flows) < MaxFlows))]_vars

\* a flow has just been inserted filtered while one flow only of the table
\* is not filtered and MaxFlows is 2
C35_Witness ==
    /\ pc = "update" /\ MaxFlows = 2
    /\ \E id \in DOMAIN flows :
          /\ flows[id].Filtered /\ flows[id].StartTime = now /\ now > 1
    /\ Cardinality({ id \in DOMAIN flows : ~flows[id].Filtered }) = 1

C39_FailedOpenReleasesAll ==
    (nlo.calls > 0 /\ nlo.ret = -1) =>
        /\ nlo.sock # -1 => nlo.sock \notin nlo.fds
        /\ nlo.before \subseteq nlo.fds
        /\ nlo.blocks = 0
        /\ nlo.nls = <<>>

====
